---- MODULE Spec2Model ----
(***************************************************************************)
(* Teleporter: the listener's per-connection session (src/src/listen.rs),  *)
(* the shared in-progress list, the destination files, and the filename    *)
(* sanitisation applied to every received name.                            *)
(*                                                                         *)
(* Strings are sequences of one-character strings.  A file is a record     *)
(* [len, mode, data]; the filesystem maps each existing path to its file.  *)
(* Feature and action bit masks are sets of bit names: check_u32 is        *)
(* membership, add is union.                                               *)
(***************************************************************************)
EXTENDS Integers, Sequences, FiniteSets, TLC

(* ------------------------------ bounds --------------------------------- *)
\* the first chunk size of delta_hash and the number of chunks beyond which it
\* doubles (1024 and 2048 in the code); the client's read buffer (4096)
ChunkBase == 2
ChunkRatio == 1
BufSize == 2
\* input files of a client run, and the length of a source file
MaxFiles == 2
MaxSrcLen == 4

NumSessions == 2        \* connections accepted by the listener
MaxActive   == 2        \* session threads alive at the same time
MaxFileSize == 2        \* largest filesize announced in an Init
MaxChunk    == 1        \* largest payload of one Data frame
MaxNameLen  == 6        \* longest filename fed to the sanitiser alone

Sessions == 1..NumSessions

(* --------------------------- program constants ------------------------- *)
Actions  == {"Init", "InitAck", "Ecdh", "EcdhAck", "Ping", "PingAck", "Data"}
Features == {"NewFile", "Delta", "Overwrite", "Backup", "Rename", "Ping"}
Statuses == {"Proceed", "NoOverwrite", "NoSpace", "NoPermission", "WrongVersion",
             "RequiresEncryption", "EncryptionError", "BadFileName", "Pong",
             "UnknownUser", "UnknownAction"}
DefaultChmod == 420     \* 0o644
ServerVersion == [major |-> 0, minor |-> 5, patch |-> 5]

(* ------------------------------ strings -------------------------------- *)
DotDotSlash == <<".", ".", "/">>
DotBak == <<".", "b", "a", "k">>
DigitChars == <<"0", "1", "2", "3", "4", "5", "6", "7", "8", "9">>

\* num.to_string()
RECURSIVE NumToString(_)
NumToString(n) ==
  IF n < 10 THEN <<DigitChars[n + 1]>>
  ELSE NumToString(n \div 10) \o <<DigitChars[(n % 10) + 1]>>

StartsWithSlash(s) == Len(s) > 0 /\ s[1] = "/"

\* String::remove(0)
RemoveFirst(s) == SubSeq(s, 2, Len(s))

\* str::replace("../", ""): scan left to right, drop each match, resume after it
RECURSIVE Replace(_)
Replace(s) ==
  IF Len(s) < 3 THEN s
  ELSE IF SubSeq(s, 1, 3) = DotDotSlash THEN Replace(SubSeq(s, 4, Len(s)))
  ELSE <<s[1]>> \o Replace(SubSeq(s, 2, Len(s)))

RECURSIVE TrimSlashes(_)
TrimSlashes(s) == IF StartsWithSlash(s) THEN TrimSlashes(RemoveFirst(s)) ELSE s

\* a sanitiser that strips every leading '/', not only the first
SanitizeTrimAll(allow, name) ==
  IF allow THEN name ELSE Replace(TrimSlashes(name))

\* listen.rs 163-171
Sanitize(allow, name) ==
  IF allow THEN name
  ELSE Replace(IF StartsWithSlash(name) THEN RemoveFirst(name) ELSE name)

HasDotDotSlash(s) ==
  \E i \in 1..Len(s) : i + 2 <= Len(s) /\ SubSeq(s, i, i + 2) = DotDotSlash

(* ------------------------------- paths --------------------------------- *)
Bak(name) == name \o DotBak
Renamed(name, num) == name \o <<".">> \o NumToString(num)

\* Path::parent() is None for the empty path and for a root
ParentIsNone(name) == \A i \in 1..Len(name) : name[i] = "/"

\* Path::exists(): the path names a file of the filesystem, or it is the root
Exists(files, path) ==
  path \in DOMAIN files \/ (Len(path) > 0 /\ ParentIsNone(path))

\* a loop that renames at least once, whether or not the name is taken
RECURSIVE RenameLoopAlways(_, _, _, _)
RenameLoopAlways(files, name, dest, num) ==
  IF Exists(files, dest) \/ num = 1
  THEN RenameLoopAlways(files, name, Renamed(name, num), num + 1)
  ELSE dest

\* the Rename loop of listen.rs 174-180
RECURSIVE RenameLoop(_, _, _, _)
RenameLoop(files, name, dest, num) ==
  IF Exists(files, dest)
  THEN RenameLoop(files, name, Renamed(name, num), num + 1)
  ELSE dest

(* ------------------------------- files --------------------------------- *)
NewFileRec == [len |-> 0, mode |-> DefaultChmod, data |-> <<>>]

\* File::set_len: truncate, or extend with zero bytes
SetLenRec(f, n) ==
  [f EXCEPT !.len = n,
            !.data = [i \in 1..n |-> IF i <= f.len THEN f.data[i] ELSE 0]]

Max(a, b) == IF a >= b THEN a ELSE b
Min(a, b) == IF a <= b THEN a ELSE b

\* a write that skips the seek and lands at the start of the file
WriteRecNoSeek(f, off, data, wrote) ==
  LET n == Max(f.len, wrote) IN
  IF wrote = 0 THEN f ELSE
  [f EXCEPT !.len = n,
            !.data = [i \in 1..n |->
                        IF i <= wrote THEN data[i]
                        ELSE IF i <= f.len THEN f.data[i] ELSE 0]]

\* seek(Start(off)) then write of the first `wrote` bytes of data
WriteRec(f, off, data, wrote) ==
  LET n == Max(f.len, off + wrote) IN
  IF wrote = 0 THEN f ELSE
  [f EXCEPT !.len = n,
            !.data = [i \in 1..n |->
                        IF i > off /\ i <= off + wrote THEN data[i - off]
                        ELSE IF i <= f.len THEN f.data[i] ELSE 0]]

\* the bytes of the clients' source file: its byte at position p (0-based)
SrcByte(p) == (p % 2) + 1
Source(n) == [i \in 1..n |-> SrcByte(i - 1)]

(* ------------------------------ messages ------------------------------- *)
\* a comparison that also wants the patch to match
IsCompatibleExact(v, version) == version = v

\* TeleportVersion::is_compatible
IsCompatible(v, version) == version.major = v.major /\ version.minor = v.minor

\* TeleportInitAck::new: no features, no delta; an Option is <<>> or <<x>>
InitAckNew(status) == [status |-> status, features |-> <<>>, delta |-> <<>>]

\* TeleportInitAck::deserialize of what TeleportInitAck::serialize made of the
\* ack: a status other than Proceed ends after the version; Proceed needs the
\* features, and with the Delta bit a TeleportDelta of at least 22 bytes
InitAckDeserializeOk(ack) ==
  ack.status = "Proceed"
    => (ack.features # <<>> /\ ("Delta" \in ack.features[1] => ack.delta # <<>>))

\* TeleportFeatures::add on an Option<u32>
AddFeature(feat, o) == IF o = <<>> THEN <<{feat}>> ELSE <<o[1] \cup {feat}>>

\* utils::send_packet: the frame is encrypted iff a crypto session is given
SendPacket(action, e, ack) ==
  [action |-> action, encrypted |-> e, status |-> ack.status,
   features |-> ack.features, delta |-> ack.delta]

\* an ack that goes out without the session's crypto context
SendAckPlain(ack, e) == SendPacket("InitAck", FALSE, ack)

\* send_ack
SendAck(ack, e) == SendPacket("InitAck", e, ack)

\* utils::recv_packet fails on a frame with the Encrypted bit when there is
\* no crypto session to decrypt it with
RecvPacketFails(f, e) == f.encrypted /\ ~e

\* a listener that forgets must_encrypt
FirstBranchNoRefuse(action, must) ==
  CASE action = "Ping" -> "ping"
    [] action = "Ecdh" -> "ecdh"
    [] OTHER -> "init"

\* a listener without the Ping branch
FirstBranchNoPing(action, must) ==
  CASE action = "Ecdh" -> "ecdh"
    [] action # "Ecdh" /\ must -> "refuse"
    [] OTHER -> "init"

\* listen.rs 108, 125, 133: what the first frame's action selects
FirstBranch(action, must) ==
  CASE action = "Ping" -> "ping"
    [] action = "Ecdh" -> "ecdh"
    [] action \notin {"Ping", "Ecdh"} /\ must -> "refuse"
    [] OTHER -> "init"

\* a first receive whose error is dropped instead of returned
FirstPacketFailsIgnored(f) == FALSE

\* listen.rs 107: recv_packet(&mut stream, &None)?
FirstPacketFails(f) == RecvPacketFails(f, FALSE)

(* -------------------------------- wire --------------------------------- *)
\* to_le_bytes of an unsigned integer of w bytes
RECURSIVE LeBytes(_, _)
LeBytes(n, w) == IF w = 0 THEN <<>> ELSE <<n % 256>> \o LeBytes(n \div 256, w - 1)

\* read_u16 / read_u32 / read_u64 ::<LittleEndian> of exactly these bytes
RECURSIVE LeValue(_)
LeValue(b) == IF b = <<>> THEN 0 ELSE b[1] + 256 * LeValue(Tail(b))

Take(b, k) == SubSeq(b, 1, k)
Drop(b, k) == SubSeq(b, k + 1, Len(b))

\* String::from_utf8 succeeds: the bytes used here are ASCII, or 255, which
\* no UTF-8 text contains
Utf8(b) == \A i \in 1..Len(b) : b[i] < 128

\* what a deserialize returns: Ok with the value read, Err(TeleportError::e),
\* or a panic.  A read past the end of the buffer is the Io error.
Ok(v) == [status |-> "ok", value |-> v, error |-> ""]
Fail(e) == [status |-> "err", value |-> <<>>, error |-> e]
Err == Fail("Io")
Panic == [status |-> "panic", value |-> <<>>, error |-> ""]

\* TeleportVersion::serialize
TeleportVersionSerialize(v) ==
  LeBytes(v.major, 2) \o LeBytes(v.minor, 2) \o LeBytes(v.patch, 2)

\* TeleportVersion::deserialize: three read_u16
TeleportVersionDeserialize(b) ==
  IF Len(b) < 6 THEN Err
  ELSE Ok([major |-> LeValue(SubSeq(b, 1, 2)), minor |-> LeValue(SubSeq(b, 3, 4)),
           patch |-> LeValue(SubSeq(b, 5, 6))])

\* TeleportInit::new: the server's version, chmod 0o644, empty names, lengths 0
TeleportInitNew(features) ==
  [version |-> ServerVersion, features |-> features, chmod |-> DefaultChmod,
   filesize |-> 0, filename_len |-> 0, filename |-> <<>>,
   username_len |-> 0, username |-> <<>>]

\* TeleportInit::serialize: the lengths written are those of the vectors
TeleportInitSerialize(m) ==
  TeleportVersionSerialize(m.version) \o LeBytes(m.features, 4) \o LeBytes(m.chmod, 4)
    \o LeBytes(m.filesize, 8) \o LeBytes(Len(m.filename), 2) \o m.filename
    \o LeBytes(Len(m.username), 2) \o m.username

\* TeleportInit::deserialize: a failed read is an Err, a slice past the end of
\* the buffer and the unwrap of a filename that is not UTF-8 are panics
TeleportInitDeserialize(b) ==
  IF Len(b) < 24 THEN Err
  ELSE
    LET flen == LeValue(SubSeq(b, 23, 24))
        rest == Drop(b, 24)
    IN
    IF Len(rest) < flen THEN Panic
    ELSE IF ~Utf8(Take(rest, flen)) THEN Panic
    ELSE IF Len(rest) < flen + 2 THEN Err
    ELSE
      LET ulen == LeValue(SubSeq(rest, flen + 1, flen + 2))
          tail == Drop(rest, flen + 2)
      IN
      IF Len(tail) < ulen THEN Panic
      ELSE Ok([version |-> TeleportVersionDeserialize(b).value,
               features |-> LeValue(SubSeq(b, 7, 10)),
               chmod |-> LeValue(SubSeq(b, 11, 14)),
               filesize |-> LeValue(SubSeq(b, 15, 22)),
               filename_len |-> flen, filename |-> Take(rest, flen),
               username_len |-> ulen, username |-> Take(tail, ulen)])

\* the bit `bit` (a power of two) is set in n
HasBit(n, bit) == (n \div bit) % 2 = 1

\* PROTOCOL as its eight little-endian bytes, "TELEPORT"
Protocol == <<84, 69, 76, 69, 80, 79, 82, 84>>
EncryptedBit == 128

\* TeleportHeader::new
TeleportHeaderNew(action) ==
  [protocol |-> Protocol, data_len |-> 0, action |-> action, iv |-> <<>>,
   data |-> <<>>]

\* TeleportHeader::serialize sets self.data_len before writing it
HeaderAfterSerialize(h) == [h EXCEPT !.data_len = Len(h.data)]

\* TeleportHeader::serialize: the Encrypted bit is or-ed in when iv is Some
TeleportHeaderSerialize(h) ==
  h.protocol \o LeBytes(Len(h.data), 4)
    \o <<IF h.iv # <<>> /\ ~HasBit(h.action, EncryptedBit)
          THEN h.action + EncryptedBit ELSE h.action>>
    \o (IF h.iv # <<>> THEN h.iv[1] ELSE <<>>) \o h.data

\* a deserialize that takes whatever payload follows, without comparing its
\* length with data_len
TeleportHeaderDeserializeAnyLength(b) ==
  IF Len(b) < 8 THEN Err
  ELSE IF Take(b, 8) # Protocol THEN Fail("InvalidHeaderRead")
  ELSE IF Len(b) < 13 THEN Err
  ELSE
    LET crypt == HasBit(b[13], EncryptedBit)
        ofs == IF crypt THEN 25 ELSE 13
    IN
    IF crypt /\ Len(b) < 25 THEN Fail("InvalidIV")
    ELSE Ok([protocol |-> Take(b, 8), data_len |-> LeValue(SubSeq(b, 9, 12)),
             action |-> b[13], iv |-> IF crypt THEN <<SubSeq(b, 14, 25)>> ELSE <<>>,
             data |-> Drop(b, ofs)])

\* TeleportHeader::deserialize into TeleportHeader::new(..)
TeleportHeaderDeserialize(b) ==
  IF Len(b) < 8 THEN Err
  ELSE IF Take(b, 8) # Protocol THEN Fail("InvalidHeaderRead")
  ELSE IF Len(b) < 13 THEN Err
  ELSE
    LET crypt == HasBit(b[13], EncryptedBit)
        ofs == IF crypt THEN 25 ELSE 13
    IN
    IF crypt /\ Len(b) < 25 THEN Fail("InvalidIV")
    ELSE IF Len(b) - ofs # LeValue(SubSeq(b, 9, 12)) THEN Fail("InvalidLength")
    ELSE Ok([protocol |-> Take(b, 8), data_len |-> LeValue(SubSeq(b, 9, 12)),
             action |-> b[13], iv |-> IF crypt THEN <<SubSeq(b, 14, 25)>> ELSE <<>>,
             data |-> Drop(b, ofs)])

\* TeleportDelta::delta_serial
RECURSIVE DeltaSerial(_)
DeltaSerial(hs) == IF hs = <<>> THEN <<>> ELSE LeBytes(hs[1], 8) \o DeltaSerial(Tail(hs))

\* TeleportDelta::serialize
TeleportDeltaSerialize(d) ==
  LeBytes(d.filesize, 8) \o LeBytes(d.hash, 8) \o LeBytes(d.chunk_size, 4)
    \o LeBytes(Len(d.chunk_hash), 2) \o DeltaSerial(d.chunk_hash)

\* TeleportDelta::deserialize with delta_deserial
TeleportDeltaDeserialize(b) ==
  IF Len(b) < 22 THEN Fail("InvalidLength")
  ELSE
    LET len == LeValue(SubSeq(b, 21, 22))
        rest == Drop(b, 22)
    IN
    IF Len(rest) % 8 # 0 \/ len # Len(rest) \div 8 THEN Fail("InvalidDelta")
    ELSE Ok([filesize |-> LeValue(SubSeq(b, 1, 8)), hash |-> LeValue(SubSeq(b, 9, 16)),
             chunk_size |-> LeValue(SubSeq(b, 17, 20)), chunk_hash_len |-> len,
             chunk_hash |-> [i \in 1..len |-> LeValue(SubSeq(rest, 8 * i - 7, 8 * i))]])

\* xxh3 of a buffer, ideal: buffers of bytes below 4 that differ in a byte or
\* in their length have different digests
RECURSIVE Xxh3(_)
Xxh3(buf) == IF buf = <<>> THEN 1 ELSE (buf[1] % 4) + 4 * Xxh3(Tail(buf))

\* TeleportDelta::chunk_size for a first chunk size `base` (1024 in the code)
\* that doubles while the file holds more than `ratio` (2048) chunks; the
\* clamp to u32::MAX lies beyond every size of the model
RECURSIVE ChunkSize(_, _, _)
ChunkSize(base, ratio, file_size) ==
  IF file_size \div base > ratio THEN ChunkSize(2 * base, ratio, file_size)
  ELSE base

\* the read loop of delta_hash: a read fills the front of buf with what is
\* left of the file, the digest is taken of the whole of buf
RECURSIVE DeltaLoop(_, _, _, _)
DeltaLoop(rest, buf, chunk_hash, whole) ==
  IF rest = <<>> THEN [chunk_hash |-> chunk_hash, whole |-> whole]
  ELSE LET len == Min(Len(buf), Len(rest))
           filled == Take(rest, len) \o Drop(buf, len)
       IN DeltaLoop(Drop(rest, len), filled, Append(chunk_hash, Xxh3(filled)),
                    whole \o filled)

\* TeleportDelta::delta_hash with a buffer of c bytes; chunk_hash_len stays as
\* new() left it
DeltaHash(c, content) ==
  LET r == DeltaLoop(content, [i \in 1..c |-> 0], <<>>, <<>>) IN
  [filesize |-> Len(content), hash |-> Xxh3(r.whole), chunk_size |-> c,
   chunk_hash_len |-> 0, chunk_hash |-> r.chunk_hash]

ProceedCode == 0
DeltaBit == 2

\* the discriminants of enum TeleportStatus
TeleportStatusCodes == (0..9) \cup {255}

\* TeleportInitAck::serialize
TeleportInitAckSerialize(a) ==
  <<a.status>> \o TeleportVersionSerialize(a.version)
    \o (IF a.status # ProceedCode \/ a.features = <<>> THEN <<>>
        ELSE LeBytes(a.features[1], 4)
               \o (IF HasBit(a.features[1], DeltaBit) /\ a.delta # <<>>
                   THEN TeleportDeltaSerialize(a.delta[1]) ELSE <<>>))

\* TeleportInitAck::deserialize into TeleportInitAck::new(..)
TeleportInitAckDeserialize(b) ==
  IF Len(b) < 7 THEN Err
  ELSE
    LET v == TeleportVersionDeserialize(Drop(b, 1)).value IN
    IF b[1] # ProceedCode
      THEN Ok([status |-> b[1], version |-> v, features |-> <<>>, delta |-> <<>>])
    ELSE IF Len(b) < 11 THEN Err
    ELSE
      LET feat == LeValue(SubSeq(b, 8, 11)) IN
      IF ~HasBit(feat, DeltaBit)
        THEN Ok([status |-> b[1], version |-> v, features |-> <<feat>>, delta |-> <<>>])
      ELSE IF TeleportDeltaDeserialize(Drop(b, 11)).status # "ok"
        THEN TeleportDeltaDeserialize(Drop(b, 11))
      ELSE Ok([status |-> b[1], version |-> v, features |-> <<feat>>,
               delta |-> <<TeleportDeltaDeserialize(Drop(b, 11)).value>>])

\* TeleportAction::Data
DataAction == 64

\* TeleportData::serialize: the length written is that of the data
TeleportDataSerialize(m) == LeBytes(m.offset, 8) \o LeBytes(Len(m.data), 4) \o m.data

\* TeleportData::deserialize
TeleportDataDeserialize(b) ==
  IF Len(b) < 12 THEN Err
  ELSE IF Len(b) - 12 # LeValue(SubSeq(b, 9, 12)) THEN Fail("InvalidLength")
  ELSE Ok([offset |-> LeValue(SubSeq(b, 1, 8)), data_len |-> LeValue(SubSeq(b, 9, 12)),
           data |-> Drop(b, 12)])

Serialize(kind, m) ==
  CASE kind = "TeleportVersion" -> TeleportVersionSerialize(m)
    [] kind = "TeleportInit" -> TeleportInitSerialize(m)
    [] kind = "TeleportInitAck" -> TeleportInitAckSerialize(m)
    [] kind = "TeleportDelta" -> TeleportDeltaSerialize(m)
    [] kind = "TeleportData" -> TeleportDataSerialize(m)
    [] kind = "TeleportHeader" -> TeleportHeaderSerialize(m)

Deserialize(kind, b) ==
  CASE kind = "TeleportVersion" -> TeleportVersionDeserialize(b)
    [] kind = "TeleportInit" -> TeleportInitDeserialize(b)
    [] kind = "TeleportInitAck" -> TeleportInitAckDeserialize(b)
    [] kind = "TeleportDelta" -> TeleportDeltaDeserialize(b)
    [] kind = "TeleportData" -> TeleportDataDeserialize(b)
    [] kind = "TeleportHeader" -> TeleportHeaderDeserialize(b)

\* the buffers of the unit tests, teleport.rs 677-690
TESTHEADER ==
  <<84, 69, 76, 69, 80, 79, 82, 84, 17, 0, 0, 0, 129, 5, 48, 46, 50, 46, 51, 0, 246, 9,
    10, 11, 12, 4, 0, 0, 0, 184, 34, 0, 0, 0, 0, 0, 0, 10, 10, 32, 3, 21>>
TESTHEADERIV == <<5, 48, 46, 50, 46, 51, 0, 246, 9, 10, 11, 12>>
TESTDATA == <<4, 0, 0, 0, 184, 34, 0, 0, 0, 0, 0, 0, 10, 10, 32, 3, 21>>
TESTINIT ==
  <<0, 0, 5, 0, 5, 0, 5, 0, 0, 0, 237, 1, 0, 0, 57, 48, 0, 0, 0, 0, 0, 0, 4, 0, 102,
    105, 108, 101>>
TESTDELTA ==
  <<177, 104, 222, 58, 0, 0, 0, 0, 57, 48, 0, 0, 0, 0, 0, 0, 21, 205, 91, 7, 0, 0>>
TESTDATAPKT == <<49, 212, 0, 0, 0, 0, 0, 0, 5, 0, 0, 0, 1, 2, 3, 4, 5>>
TESTINITACK == <<0, 0, 0, 6, 0, 0, 0, 5, 0, 0, 0>>

\* "file"
FileName == <<102, 105, 108, 101>>

(* ------------------------------- inputs -------------------------------- *)
Bytes == {1, 2}
NoInit == [version |-> ServerVersion, features |-> {}, chmod |-> 0,
           filesize |-> 0, filename |-> <<>>]

VersionChoices ==
  { ServerVersion,
    [ServerVersion EXCEPT !.patch = 6],
    [ServerVersion EXCEPT !.minor = 4],
    [ServerVersion EXCEPT !.major = 1] }
FeatureChoices ==
  { {"NewFile"} \cup x : x \in SUBSET {"Overwrite", "Rename", "Backup", "Delta"} }
    \cup { {"Ping"} }
ChmodChoices == {493}        \* 0o755
NameChoices == { <<"f">>, <<"/", "f">>, <<>> }

InitChoices ==
  { [version |-> v, features |-> x, chmod |-> c, filesize |-> n, filename |-> m] :
      v \in VersionChoices, x \in FeatureChoices, c \in ChmodChoices,
      n \in 0..MaxFileSize, m \in NameChoices }

Payload(kind, init, off, data) ==
  [kind |-> kind, init |-> init, off |-> off, data |-> data]

\* well-formed TeleportInit payloads, and payloads that are not
InitPayloads == { Payload("init", h, 0, <<>>) : h \in InitChoices }
JunkPayloads ==
  { Payload(k, NoInit, 0, <<>>) :
      k \in {"short", "badlen", "badname", "baduser", "key", "baddata"} }
    \cup { Payload("baduser", [NoInit EXCEPT !.version.major = 1], 0, <<>>) }
ChunkChoices ==
  UNION { [1..n -> Bytes] : n \in 0..MaxChunk }
DataPayloads ==
  { Payload("data", NoInit, off, d) : off \in 0..MaxFileSize, d \in ChunkChoices }

InActions == {"Init", "Ecdh", "Ping", "Data", "InitAck"}
Frames(payloads) ==
  { [action |-> a, encrypted |-> e, payload |-> p] :
      a \in InActions, e \in BOOLEAN, p \in payloads }

\* what a client may send while the session expects an Init, and in the loop
HandshakeFrames == Frames(InitPayloads \cup JunkPayloads)
LoopFrames ==
  { f \in Frames(DataPayloads \cup JunkPayloads) :
      /\ f.action \in {"Data", "Init"}
      /\ f.payload.kind \in {"data", "short", "baddata"} }

\* TeleportInit::deserialize: "ok", "err" (a read fails), "panic" (a slice
\* past the end of the buffer, or the unwrap of a filename that is not UTF-8)
InitDeserialize(p) ==
  CASE p.kind \in {"init", "baduser"} -> "ok"
    [] p.kind \in {"short", "data", "baddata"} -> "err"
    [] OTHER -> "panic"

\* TeleportEnc::deserialize: at least 32 bytes
EncDeserializeOk(p) == p.kind = "key"

\* TeleportData::deserialize
DataDeserializeOk(p) == p.kind = "data"

(* ------------------------------- state --------------------------------- *)
VARIABLES
  opt,        \* ListenOpt: must_encrypt, allow_dangerous_filepath
  recv_list,  \* the in-progress list, Arc<Mutex<Vec<String>>>
  fs,         \* the filesystem: path -> file
  pc,         \* where each session thread stands
  enc,        \* enc.is_some(): the Ecdh handshake completed
  header,     \* the fields of the received TeleportInit the session keeps using
  filename,   \* the session's filename (effective once validated)
  meta_len,   \* meta.len() as read after the open
  received,   \* the receive loop's counter
  written,    \* bytes the loop wrote to the file, counted up to filesize + 1
  chunk,      \* the last TeleportData the loop parsed: <<>> or <<[offset, data_len]>>
  sent,       \* the frames the session wrote to its socket
  outcome,    \* how the session ended ("" while undecided)
  first,      \* the first frame that arrived on the connection
  raced,      \* another session changed the filesystem between this one's rename and open
  shared,     \* another session changed this session's open destination file
  io,         \* the session's filesystem calls so far: "none", "stat", "open",
              \* or "create" when its open made a file that was not there
  cover,      \* positions written with the source's bytes (-1: some frame was not)
  sanName, sanAllow, sanOut, sanPc,  \* the sanitiser on its own
  cKind,      \* the message type a serialize/deserialize round trip is about
  cMsg,       \* the instance handed to serialize: <<m>>, or <<>> for a given buffer
  cWire,      \* the bytes serialize returned, or a buffer handed to deserialize
  cBack,      \* what deserialize made of cWire: <<>> or <<[status, value]>>
  cPc,        \* "off", "built", "wired", "read"
  ectx,       \* the TeleportEnc of each party of a key exchange
  epriv,      \* the EphemeralSecret genkey returned to each party (0: none)
  emsg,       \* a payload one party encrypted: <<>> or <<[by, nonce, plain, cipher]>>
  eback,      \* what a party made of the cipher: <<>> or <<[by, nonce, result]>>
  epc,        \* "off", "new", "keyed", "swapped", "derived", "sealed", "opened"
  mutex,      \* the session thread holding the guard of recv_list's Mutex (0: free)
  poisoned,   \* a thread panicked while it held the guard
  ksrc,       \* the client's input files (opt.input), each by its content
  knum,       \* num: the index of the file the client's loop is at
  kpc,        \* "off", "open", "await", "send", "closed", "exit"
  kack,       \* what the server answered on this connection: <<>> or <<[status, dest, delta]>>
  kout,       \* what the client wrote on this connection: [header, data]
  kpos,       \* the position of the source file handle
  kresult     \* how run ended: "", "ok", "err", "panic"

svars == <<sanName, sanAllow, sanOut, sanPc>>
cvars == <<cKind, cMsg, cWire, cBack, cPc>>
evars == <<ectx, epriv, emsg, eback, epc>>
lvars == <<mutex, poisoned>>
kvars == <<ksrc, knum, kpc, kack, kout, kpos, kresult>>
xvars == <<svars, cvars, evars, lvars, kvars>>
sessvars == <<opt, recv_list, fs, pc, enc, header, filename, meta_len, received,
              written, chunk, sent, outcome, first, raced, shared, io, cover>>
vars == <<opt, recv_list, fs, pc, enc, header, filename, meta_len, received,
          written, chunk,
          sent, outcome, first, raced, shared, io, cover, xvars>>

\* TeleportInit::new (listen.rs 138), as far as the session reads it
NoHeader == [version |-> ServerVersion, features |-> {}, chmod |-> 0, filesize |-> 0]
NoFrame == [action |-> "", encrypted |-> FALSE, kind |-> "", ping |-> FALSE]

RacePcs == {"overwrite", "open"}
OpenPcs == {"chmod", "push", "setlen", "loop"}

ExistingFile == [len |-> 1, mode |-> DefaultChmod, data |-> <<1>>]
InitFiles == { <<>>, (<<"f">> :> ExistingFile) }

CodecOff ==
  cKind = "" /\ cMsg = <<>> /\ cWire = <<>> /\ cBack = <<>> /\ cPc = "off"

ExchangeOff ==
  ectx = <<>> /\ epriv = <<>> /\ emsg = <<>> /\ eback = <<>> /\ epc = "off"

\* Mutex::new (listen.rs 47): nobody holds the guard
Unlocked == mutex = 0 /\ poisoned = FALSE

NoOutput == [header |-> <<>>, data |-> <<>>]
ClientOff ==
  /\ ksrc = <<>> /\ knum = 0 /\ kpc = "off" /\ kack = <<>> /\ kout = NoOutput
  /\ kpos = 0 /\ kresult = ""

InitSessions ==
  /\ recv_list = <<>>
  /\ pc = [s \in Sessions |-> "idle"]
  /\ enc = [s \in Sessions |-> FALSE]
  /\ header = [s \in Sessions |-> NoHeader]
  /\ filename = [s \in Sessions |-> <<>>]
  /\ meta_len = [s \in Sessions |-> 0]
  /\ received = [s \in Sessions |-> 0]
  /\ written = [s \in Sessions |-> 0]
  /\ chunk = [s \in Sessions |-> <<>>]
  /\ sent = [s \in Sessions |-> <<>>]
  /\ outcome = [s \in Sessions |-> ""]
  /\ first = [s \in Sessions |-> NoFrame]
  /\ raced = [s \in Sessions |-> FALSE]
  /\ shared = [s \in Sessions |-> FALSE]
  /\ io = [s \in Sessions |-> "none"]
  /\ cover = [s \in Sessions |-> {}]

Init ==
  /\ opt \in [must_encrypt : BOOLEAN, allow_dangerous_filepath : BOOLEAN]
  /\ fs \in InitFiles
  /\ InitSessions
  /\ sanName = <<>> /\ sanAllow = FALSE /\ sanOut = <<>> /\ sanPc = "off"
  /\ CodecOff
  /\ ExchangeOff
  /\ Unlocked
  /\ ClientOff

(* ------------------------------ helpers -------------------------------- *)
Put(files, p, rec) ==
  [q \in (DOMAIN files) \cup {p} |-> IF q = p THEN rec ELSE files[q]]

\* the paths a step created or changed (no step removes a file)
Changed == { p \in DOMAIN fs' : p \notin DOMAIN fs \/ fs'[p] # fs[p] }

\* what a step of session t means to the others: a change of the filesystem
\* while a Rename session is between its rename loop and its open, and a change
\* of a file another session holds open.  A session's own notes end with the
\* phase they are about.
Notes(t) ==
  /\ raced' = [u \in Sessions |->
                 IF u = t THEN raced[t] /\ pc'[t] \in RacePcs
                 ELSE raced[u] \/ (pc[u] \in RacePcs /\ "Rename" \in header[u].features
                                     /\ Changed # {})]
  /\ shared' = [u \in Sessions |->
                  IF u = t THEN shared[t] /\ pc'[t] \in OpenPcs
                  ELSE shared[u] \/ (pc[u] \in OpenPcs /\ filename[u] \in Changed)]

\* handle_connection returns, after writing `frames` to the socket
Finish(s, why, frames) ==
  /\ pc' = [pc EXCEPT ![s] = "returned"]
  /\ outcome' = [outcome EXCEPT ![s] = why]
  /\ sent' = [sent EXCEPT ![s] = @ \o frames]

\* a break out of the receive loop: the cleanup at listen.rs 331 follows
Break(s, why) ==
  /\ pc' = [pc EXCEPT ![s] = "cleanup"]
  /\ outcome' = [outcome EXCEPT ![s] = why]

Reply(s, status) == <<SendAck(InitAckNew(status), enc[s])>>

EcdhAckFrame == SendPacket("EcdhAck", FALSE, InitAckNew("-"))
PongFrame == SendPacket("PingAck", FALSE, InitAckNew("Pong"))

\* listen.rs 237-257: the Proceed ack
ProceedAck(features, mlen, deltaOk) ==
  LET r0 == InitAckNew("Proceed")
      r1 == [r0 EXCEPT !.features = AddFeature("NewFile", @)]
      r2 == IF mlen > 0
            THEN [r1 EXCEPT !.features = AddFeature("Overwrite", @)]
            ELSE r1
  IN IF mlen > 0 /\ "Delta" \in features
     THEN [r2 EXCEPT !.features = AddFeature("Delta", @),
                     !.delta = IF deltaOk THEN <<"delta">> ELSE <<>>]
     ELSE r2

\* a success test that looks at the terminal frame's offset only
TerminalSuccessOffsetOnly(recvd, filesize, off, n) == filesize = off /\ n = 0

\* listen.rs 289-290
TerminalSuccess(recvd, filesize, off, n) ==
  recvd = filesize \/ (filesize = off /\ n = 0)

\* Vec::retain(|x| x != filename)
Retain(list, name) == SelectSeq(list, LAMBDA x : x # name)

\* the positions below filesize that the session has written with the source's
\* bytes; {-1} once a frame carried other bytes or was not written whole
Covered(s, cov, off, d, wrote) ==
  IF cov = {-1} \/ wrote # Len(d) \/ \E i \in 1..Len(d) : d[i] # SrcByte(off + i - 1)
  THEN {-1}
  ELSE (cov \cup (off..(off + Len(d) - 1))) \cap (0..(header[s].filesize - 1))

(* ------------------------------ actions -------------------------------- *)
\* run, listen.rs 50-60: the serial accept loop spawns a thread per connection
Accept(s, conns, active) ==
  /\ pc[s] = "idle"
  /\ s <= conns
  /\ \A t \in Sessions : t < s => pc[t] # "idle"
  /\ Cardinality({t \in Sessions : pc[t] \notin {"idle", "done"}}) < active
  /\ pc' = [pc EXCEPT ![s] = "first"]
  /\ UNCHANGED <<opt, recv_list, fs, enc, header, filename, meta_len, received,
                 written, chunk, sent,
                 outcome, first, cover, io, xvars>>
  /\ Notes(s)

\* listen.rs 138-171: parse the Init, check action, username, version; sanitise.
\* Of a header that was parsed and then refused only the version is kept: the
\* code reads nothing else of it.
ProcessInit(s, f) ==
  LET d == InitDeserialize(f.payload)
      h == f.payload.init
  IN
  IF d = "err" THEN Finish(s, "InitParse", <<>>) /\ UNCHANGED <<header, filename>>
  ELSE IF d = "panic" THEN Finish(s, "InitPanic", <<>>) /\ UNCHANGED <<header, filename>>
  ELSE IF f.action # "Init"
    THEN Finish(s, "EncryptionError", Reply(s, "EncryptionError"))
         /\ header' = [header EXCEPT ![s].version = h.version]
         /\ UNCHANGED filename
  ELSE IF f.payload.kind = "baduser"
    THEN Finish(s, "BadUsername", <<>>)
         /\ header' = [header EXCEPT ![s].version = h.version]
         /\ UNCHANGED filename
  ELSE IF ~IsCompatible(h.version, ServerVersion)
    THEN Finish(s, "WrongVersion", Reply(s, "WrongVersion"))
         /\ header' = [header EXCEPT ![s].version = h.version]
         /\ UNCHANGED filename
  ELSE
    /\ header' = [header EXCEPT ![s] =
                    [version |-> h.version, features |-> h.features,
                     chmod |-> h.chmod, filesize |-> h.filesize]]
    /\ filename' = [filename EXCEPT ![s] =
                      Sanitize(opt.allow_dangerous_filepath, h.filename)]
    /\ pc' = [pc EXCEPT ![s] = IF "Rename" \in h.features THEN "rename" ELSE "overwrite"]
    /\ UNCHANGED <<outcome, sent>>

\* listen.rs 107-136: the first frame
RecvFirst(s, frames) ==
  /\ pc[s] = "first"
  /\ UNCHANGED <<opt, recv_list, fs, meta_len, received,
                 written, chunk, cover, io, xvars>>
  /\ \/ /\ Finish(s, "RecvError", <<>>)
        /\ UNCHANGED <<enc, header, filename, first>>
     \/ \E f \in frames :
          /\ first' = [first EXCEPT ![s] =
                         [action |-> f.action, encrypted |-> f.encrypted,
                          kind |-> f.payload.kind,
                          ping |-> "Ping" \in f.payload.init.features]]
          /\ IF FirstPacketFails(f)
               THEN Finish(s, "DecryptFail", <<>>) /\ UNCHANGED <<enc, header,
                                                                  filename>>
             ELSE IF FirstBranch(f.action, opt.must_encrypt) = "ping"
               THEN /\ UNCHANGED <<enc, header, filename>>
                    /\ LET d == InitDeserialize(f.payload) IN
                       IF d = "err" THEN Finish(s, "PingParse", <<>>)
                       ELSE IF d = "panic" THEN Finish(s, "PingPanic", <<>>)
                       ELSE IF "Ping" \notin f.payload.init.features
                         THEN Finish(s, "NoPing", <<>>)
                       ELSE Finish(s, "Pong", <<PongFrame>>)
             ELSE IF FirstBranch(f.action, opt.must_encrypt) = "ecdh"
               THEN /\ UNCHANGED <<header, filename>>
                    /\ IF ~EncDeserializeOk(f.payload)
                         THEN Finish(s, "BadPubKey", <<>>) /\ UNCHANGED enc
                       ELSE \/ Finish(s, "EcdhAckFail", <<>>) /\ UNCHANGED enc
                            \/ /\ enc' = [enc EXCEPT ![s] = TRUE]
                               /\ sent' = [sent EXCEPT ![s] = Append(@, EcdhAckFrame)]
                               /\ pc' = [pc EXCEPT ![s] = "s1"]
                               /\ UNCHANGED outcome
             ELSE IF FirstBranch(f.action, opt.must_encrypt) = "refuse"
               THEN Finish(s, "RequiresEncryption", Reply(s, "RequiresEncryption"))
                    /\ UNCHANGED <<enc, header, filename>>
             ELSE ProcessInit(s, f) /\ UNCHANGED enc
  /\ Notes(s)

\* listen.rs 132, 138-171: the frame after the handshake
RecvInit(s, frames) ==
  /\ pc[s] = "s1"
  /\ UNCHANGED <<opt, recv_list, fs, enc, meta_len, received,
                 written, chunk, first, cover, io, xvars>>
  /\ \/ Finish(s, "RecvError", <<>>) /\ UNCHANGED <<header, filename>>
     \/ \E f \in frames :
          IF RecvPacketFails(f, enc[s])
            THEN Finish(s, "DecryptFail", <<>>) /\ UNCHANGED <<header, filename>>
          ELSE ProcessInit(s, f)
  /\ Notes(s)

\* listen.rs 173-181
RenameStep(s) ==
  /\ pc[s] = "rename"
  /\ filename' = [filename EXCEPT ![s] = RenameLoop(fs, @, @, 1)]
  /\ pc' = [pc EXCEPT ![s] = "overwrite"]
  /\ io' = [io EXCEPT ![s] = "stat"]
  /\ UNCHANGED <<opt, recv_list, fs, enc, header, meta_len, received,
                 written, chunk, sent, outcome,
                 first, cover, xvars>>
  /\ Notes(s)

\* a check that never refuses
RefuseOverwriteNever(features, ex) == FALSE

\* listen.rs 184: refuse when Overwrite was not asked for and the path exists
RefuseOverwrite(features, ex) == "Overwrite" \notin features /\ ex

\* listen.rs 183-201
CheckOverwrite(s) ==
  /\ pc[s] = "overwrite"
  /\ io' = [io EXCEPT ![s] = "stat"]
  /\ UNCHANGED <<opt, recv_list, fs, enc, header, filename, meta_len, received, written, chunk,
                 first, cover, xvars>>
  /\ IF RefuseOverwrite(header[s].features, Exists(fs, filename[s]))
       THEN Finish(s, "NoOverwrite", Reply(s, "NoOverwrite"))
     ELSE IF ParentIsNone(filename[s])
       THEN Finish(s, "BadFileName", Reply(s, "BadFileName"))
     ELSE pc' = [pc EXCEPT ![s] = "open"] /\ UNCHANGED <<sent, outcome>>
  /\ Notes(s)

\* listen.rs 203-226.  `faulty` says whether the environment may fail here: a
\* system call returns an error, the peer's socket closes, a write is short,
\* the open of an existing file is refused.  The steps that take it are the
\* ones with a Result from the environment.
OpenDest(s, faulty) ==
  LET name == filename[s]
      ex == name \in DOMAIN fs
      Called(what) == io' = [io EXCEPT ![s] = what]
  IN
  /\ pc[s] = "open"
  /\ UNCHANGED <<opt, recv_list, enc, header, filename, meta_len, received, written,
                 chunk, first, cover, xvars>>
  /\ \/ /\ faulty
        /\ Finish(s, "MkdirFail", Reply(s, "NoPermission"))
        /\ Called("open")
        /\ UNCHANGED <<fs>>
     \/ /\ ex
        /\ Called("open")
        /\ IF "Backup" \in header[s].features
             THEN \/ /\ fs' = Put(fs, Bak(name), fs[name])
                     /\ pc' = [pc EXCEPT ![s] = "chmod"]
                     /\ UNCHANGED <<sent, outcome>>
                  \/ /\ faulty
                     /\ Finish(s, "BackupFail", <<>>)
                     /\ UNCHANGED <<fs>>
           ELSE /\ pc' = [pc EXCEPT ![s] = "chmod"]
                /\ UNCHANGED <<fs, sent, outcome>>
     \/ /\ faulty \/ ~ex
        /\ fs' = Put(fs, name, IF ex THEN [fs[name] EXCEPT !.len = 0, !.data = <<>>]
                                ELSE NewFileRec)
        /\ Called(IF ex THEN "open" ELSE "create")
        /\ pc' = [pc EXCEPT ![s] = "chmod"]
        /\ UNCHANGED <<sent, outcome>>
     \/ /\ faulty
        /\ Finish(s, "CreateFail", Reply(s, "NoPermission"))
        /\ Called("open")
        /\ UNCHANGED <<fs>>
  /\ Notes(s)

\* listen.rs 227-234
ChmodStep(s, faulty) ==
  LET name == filename[s] IN
  /\ pc[s] = "chmod"
  /\ UNCHANGED <<opt, recv_list, enc, header, filename, received,
                 written, chunk, first, cover, io,
                 xvars>>
  /\ \/ /\ faulty
        /\ Finish(s, "MetadataFail", <<>>)
        /\ UNCHANGED <<fs, meta_len>>
     \/ /\ meta_len' = [meta_len EXCEPT ![s] = fs[name].len]
        /\ \/ /\ faulty
              /\ Finish(s, "ChmodFail", Reply(s, "NoPermission"))
              /\ UNCHANGED <<fs>>
           \/ /\ fs' = [fs EXCEPT ![name].mode = header[s].chmod]
              /\ pc' = [pc EXCEPT ![s] = "push"]
              /\ UNCHANGED <<sent, outcome>>
  /\ Notes(s)

\* listen.rs 240-244
Push(s) ==
  /\ pc[s] = "push"
  /\ recv_list' = Append(recv_list, filename[s])
  /\ pc' = [pc EXCEPT ![s] = "setlen"]
  /\ UNCHANGED <<opt, fs, enc, header, filename, meta_len, received,
                 written, chunk, sent, outcome,
                 first, cover, io, xvars>>
  /\ Notes(s)

\* listen.rs 246-272.  Once the ack is out the validation is over: meta, the
\* requested features, the client's version and whether the open created the
\* file are not read again (the loop reads header.filesize only) and are dropped.
SetLen(s, faulty) ==
  LET name == filename[s] IN
  /\ pc[s] = "setlen"
  /\ UNCHANGED <<opt, recv_list, enc, filename, first, cover, xvars>>
  /\ \/ /\ faulty
        /\ Finish(s, "SetLenFail", <<>>)
        /\ UNCHANGED <<fs, header, meta_len, received, written, chunk, io>>
     \/ /\ fs' = [fs EXCEPT ![name] = SetLenRec(@, header[s].filesize)]
        /\ \E deltaOk \in BOOLEAN :
             LET ack == ProceedAck(header[s].features, meta_len[s], deltaOk) IN
             \/ /\ sent' = [sent EXCEPT ![s] = Append(@, SendAck(ack, enc[s]))]
                /\ pc' = [pc EXCEPT ![s] = "loop"]
                /\ received' = [received EXCEPT ![s] = 0]
                /\ UNCHANGED <<written, chunk>>
                /\ io' = [io EXCEPT ![s] = "open"]
                /\ meta_len' = [meta_len EXCEPT ![s] = 0]
                /\ header' = [header EXCEPT ![s].features = {},
                                            ![s].version = ServerVersion]
                /\ UNCHANGED outcome
             \/ /\ faulty
                /\ Break(s, "SendProceedFail")
                /\ UNCHANGED <<sent, header, meta_len, received, written, chunk, io>>
  /\ Notes(s)

\* listen.rs 273-329: one iteration of the receive loop.  With `tally` the bytes
\* the iteration wrote are added to the session's count.
LoopStep(s, frames, faulty, tally) ==
  LET name == filename[s] IN
  /\ pc[s] = "loop"
  /\ UNCHANGED <<opt, recv_list, enc, header, filename, meta_len, first, io,
                 xvars>>
  /\ \/ /\ faulty
        /\ Break(s, "Aborted")
        /\ UNCHANGED <<fs, received, written, chunk, sent, cover>>
     \/ \E f \in frames :
          IF RecvPacketFails(f, enc[s])
            THEN /\ Break(s, "DecryptFail")
                 /\ UNCHANGED <<fs, received, written, chunk, sent, cover>>
          ELSE IF ~DataDeserializeOk(f.payload)
            THEN /\ Finish(s, "DataParse", <<>>)
                 /\ UNCHANGED <<fs, received, written, chunk, cover>>
          ELSE
            LET off == f.payload.off
                d == f.payload.data
                n == Len(d)
            IN
            /\ chunk' = [chunk EXCEPT ![s] = <<[offset |-> off, data_len |-> n]>>]
            /\ IF n = 0
                 THEN /\ Break(s, IF TerminalSuccess(received[s], header[s].filesize, off, n)
                                  THEN "Received" ELSE "ErrorReceiving")
                      /\ UNCHANGED <<fs, received, written, sent, cover>>
               ELSE
                 \/ /\ faulty
                    /\ Finish(s, "SeekFail", <<>>)
                    /\ UNCHANGED <<fs, received, written, cover>>
                 \/ /\ faulty
                    /\ Finish(s, "WriteFail", <<>>)
                    /\ UNCHANGED <<fs, received, written, cover>>
                 \/ \E wrote \in (IF faulty THEN 0..n ELSE {n}) :
                      /\ fs' = [fs EXCEPT ![name] = WriteRec(@, off, d, wrote)]
                      /\ cover' = [cover EXCEPT ![s] = Covered(s, @, off, d, wrote)]
                      /\ written' = [written EXCEPT
                                      ![s] = IF tally
                                               THEN Min(@ + wrote, header[s].filesize + 1)
                                               ELSE @]
                      /\ UNCHANGED sent
                      /\ IF wrote # n
                           THEN Break(s, "PartialWrite") /\ UNCHANGED received
                         ELSE /\ received' = [received EXCEPT ![s] = off + n]
                              /\ IF off + n > header[s].filesize
                                   THEN Break(s, "Oversize")
                                 ELSE UNCHANGED <<pc, outcome>>
  /\ Notes(s)

\* a cleanup that also deletes the destination file
CleanupRemoving(s) ==
  /\ pc[s] = "cleanup"
  /\ recv_list' = Retain(recv_list, filename[s])
  /\ fs' = [p \in DOMAIN fs \ {filename[s]} |-> fs[p]]
  /\ pc' = [pc EXCEPT ![s] = "returned"]
  /\ written' = [written EXCEPT ![s] = 0]
  /\ chunk' = [chunk EXCEPT ![s] = <<>>]
  /\ UNCHANGED <<opt, enc, header, filename, meta_len, received, sent, outcome,
                 first, cover, io, xvars>>
  /\ Notes(s)

\* listen.rs 331-333: rm_filename_from_list, then Ok(()); the loop's chunk and
\* the count of its writes end with the loop
Cleanup(s) ==
  /\ pc[s] = "cleanup"
  /\ recv_list' = Retain(recv_list, filename[s])
  /\ pc' = [pc EXCEPT ![s] = "returned"]
  /\ written' = [written EXCEPT ![s] = 0]
  /\ chunk' = [chunk EXCEPT ![s] = <<>>]
  /\ UNCHANGED <<opt, fs, enc, header, filename, meta_len, received, sent, outcome,
                 first, cover, io, xvars>>
  /\ Notes(s)

\* run, listen.rs 60-67: the thread prints the list and ends; its locals are dropped
ThreadExit(s) ==
  /\ pc[s] = "returned"
  /\ pc' = [pc EXCEPT ![s] = "done"]
  /\ enc' = [enc EXCEPT ![s] = FALSE]
  /\ header' = [header EXCEPT ![s] = NoHeader]
  /\ filename' = [filename EXCEPT ![s] = <<>>]
  /\ meta_len' = [meta_len EXCEPT ![s] = 0]
  /\ received' = [received EXCEPT ![s] = 0]
  /\ written' = [written EXCEPT ![s] = 0]
  /\ chunk' = [chunk EXCEPT ![s] = <<>>]
  /\ sent' = [sent EXCEPT ![s] = <<>>]
  /\ outcome' = [outcome EXCEPT ![s] = ""]
  /\ first' = [first EXCEPT ![s] = NoFrame]
  /\ io' = [io EXCEPT ![s] = "none"]
  /\ cover' = [cover EXCEPT ![s] = {}]
  /\ UNCHANGED <<opt, recv_list, fs, xvars>>
  /\ Notes(s)

\* the listener serving one connection, which may send anything
Next ==
  \E s \in Sessions :
    \/ Accept(s, 1, 1)
    \/ RecvFirst(s, HandshakeFrames)
    \/ RecvInit(s, HandshakeFrames)
    \/ RenameStep(s)
    \/ CheckOverwrite(s)
    \/ OpenDest(s, TRUE)
    \/ ChmodStep(s, TRUE)
    \/ Push(s)
    \/ SetLen(s, TRUE)
    \/ LoopStep(s, LoopFrames, TRUE, TRUE)
    \/ Cleanup(s)
    \/ ThreadExit(s)

Spec == Init /\ [][Next]_vars

\* the same listener with a client that sends the wrong action where the
\* protocol has one in mind: what follows a handshake is never an Init, what
\* arrives in the receive loop is never a Data frame
StrayInitFrames == { f \in HandshakeFrames : f.action # "Init" }
StrayLoopFrames == { f \in LoopFrames : f.action # "Data" }

StrayNext ==
  \E s \in Sessions :
    \/ Accept(s, 1, 1)
    \/ RecvFirst(s, HandshakeFrames)
    \/ RecvInit(s, StrayInitFrames)
    \/ RenameStep(s)
    \/ CheckOverwrite(s)
    \/ OpenDest(s, TRUE)
    \/ ChmodStep(s, TRUE)
    \/ Push(s)
    \/ SetLen(s, TRUE)
    \/ LoopStep(s, StrayLoopFrames, TRUE, TRUE)
    \/ Cleanup(s)
    \/ ThreadExit(s)

Stray == Init /\ [][StrayNext]_vars

\* concurrent connections of honest plaintext clients that overwrite or rename
\* "f": each sends an Init, slices of the source, and the terminal frame.  The
\* first connection may carry a file of MaxFileSize bytes, the others are empty.
\* The environment is healthy here (no failing system call, no dropped
\* connection) and the written bytes are not counted: what is explored is the
\* interleaving of the sessions' steps.
ConcRequests ==
  { [features |-> {"NewFile", "Overwrite"}, filesize |-> MaxFileSize],
    [features |-> {"NewFile", "Overwrite"}, filesize |-> 0],
    [features |-> {"NewFile", "Rename"}, filesize |-> 0] }

ConcInits ==
  { [action |-> "Init", encrypted |-> FALSE,
     payload |-> Payload("init", [NoInit EXCEPT !.features = r.features, !.chmod = 493,
                                                !.filesize = r.filesize,
                                                !.filename = <<"f">>], 0, <<>>)] :
      r \in ConcRequests }
ConcEmptyInits == { f \in ConcInits : f.payload.init.filesize = 0 }

ConcDatas(n) ==
  { [action |-> "Data", encrypted |-> FALSE,
     payload |-> Payload("data", NoInit, off, [i \in 1..k |-> SrcByte(off + i - 1)])] :
      off \in 0..(n - 1), k \in 1..MaxChunk }
    \cup { [action |-> "Data", encrypted |-> FALSE,
            payload |-> Payload("data", NoInit, n, <<>>)] }

ConcInit ==
  /\ opt = [must_encrypt |-> FALSE, allow_dangerous_filepath |-> FALSE]
  /\ fs = <<>>
  /\ InitSessions
  /\ sanName = <<>> /\ sanAllow = FALSE /\ sanOut = <<>> /\ sanPc = "off"
  /\ CodecOff
  /\ ExchangeOff
  /\ Unlocked
  /\ ClientOff

ConcNext ==
  \E s \in Sessions :
    \/ Accept(s, NumSessions, MaxActive)
    \/ RecvFirst(s, IF s = 1 THEN ConcInits ELSE ConcEmptyInits)
    \/ RenameStep(s)
    \/ CheckOverwrite(s)
    \/ OpenDest(s, FALSE)
    \/ ChmodStep(s, FALSE)
    \/ Push(s)
    \/ SetLen(s, FALSE)
    \/ LoopStep(s, ConcDatas(header[s].filesize), FALSE, FALSE)
    \/ Cleanup(s)
    \/ ThreadExit(s)

Conc == ConcInit /\ [][ConcNext]_vars

(* ------------------------ the sanitiser on its own ---------------------- *)
NameChars == {"/", ".", "a"}
TraversalExample ==
  <<"/", ".", ".", "/", ".", ".", "/", "e", "t", "c", "/", "p", "a", "s", "s", "w", "d">>
SanNames ==
  UNION { [1..n -> NameChars] : n \in 0..MaxNameLen } \cup {TraversalExample}

SanInit ==
  /\ opt = [must_encrypt |-> FALSE, allow_dangerous_filepath |-> FALSE]
  /\ fs = <<>>
  /\ InitSessions
  /\ sanName \in SanNames
  /\ sanAllow \in BOOLEAN
  /\ sanOut = <<>>
  /\ sanPc = "in"
  /\ CodecOff
  /\ ExchangeOff
  /\ Unlocked
  /\ ClientOff

\* listen.rs 163-171 applied to a received filename
SanApply ==
  /\ sanPc = "in"
  /\ sanOut' = Sanitize(sanAllow, sanName)
  /\ sanPc' = "out"
  /\ UNCHANGED <<opt, recv_list, fs, pc, enc, header, filename, meta_len, received,
                 written, chunk,
                 sent, outcome, first, raced, shared, io, cover,
                 sanName, sanAllow, cvars, evars, lvars, kvars>>

SanNext == SanApply

San == SanInit /\ [][SanNext]_vars

\* the messages on their own: instances built the way the program and its
\* unit tests build them, serialized and read back, and the unit tests'
\* buffers handed to deserialize
CodecVersions == [major : {0, 1}, minor : {5, 300}, patch : {5}]

CodecInits ==
  { [TeleportInitNew(feat) EXCEPT
       !.chmod = 493, !.filesize = n, !.filename = name, !.username = user,
       !.filename_len = IF lens THEN Len(name) ELSE 0,
       !.username_len = IF lens THEN Len(user) ELSE 0] :
      feat \in {1, 5}, n \in {0, 12345}, name \in {<<>>, <<102>>, FileName},
      user \in {<<>>, <<117>>}, lens \in BOOLEAN }

CodecDeltas ==
  { DeltaHash(ChunkBase, c) : c \in {<<>>, <<1>>, <<1, 2>>} }
    \cup { [filesize |-> 987654321, hash |-> 12345, chunk_size |-> 123456789,
            chunk_hash_len |-> 0, chunk_hash |-> <<>>] }

\* TeleportInitAck::new(status) as listen.rs leaves it: untouched for a
\* refusal; for Proceed with features, and a delta or None under the Delta bit
CodecAcks ==
  { [status |-> c, version |-> ServerVersion, features |-> <<>>, delta |-> <<>>] :
      c \in {1, 4, 8} }
    \cup { [status |-> ProceedCode, version |-> v, features |-> <<f>>, delta |-> <<>>] :
             v \in {ServerVersion, [major |-> 0, minor |-> 6, patch |-> 0]},
             f \in {1, 5, 7} }
    \cup { [status |-> ProceedCode, version |-> ServerVersion, features |-> <<7>>,
            delta |-> <<d>>] : d \in CodecDeltas }

CodecDatas ==
  { [offset |-> off, data_len |-> IF lens THEN Len(d) ELSE 0, data |-> d] :
      off \in {0, 54321}, d \in {<<>>, <<1>>, <<1, 2, 3, 4, 5>>}, lens \in BOOLEAN }

CodecHeaders ==
  { [TeleportHeaderNew(a) EXCEPT !.iv = iv, !.data = d,
                                 !.data_len = IF lens THEN Len(d) ELSE 0] :
      a \in {1, 64, 129, 192}, iv \in {<<>>, <<TESTHEADERIV>>},
      d \in {<<>>, <<7>>, TESTDATA}, lens \in BOOLEAN }

CodecBuilt ==
  { <<"TeleportVersion", m>> : m \in CodecVersions }
    \cup { <<"TeleportInit", m>> : m \in CodecInits }
    \cup { <<"TeleportInitAck", m>> : m \in CodecAcks }
    \cup { <<"TeleportDelta", m>> : m \in CodecDeltas }
    \cup { <<"TeleportData", m>> : m \in CodecDatas }
    \cup { <<"TeleportHeader", m>> : m \in CodecHeaders }

\* header buffers with a wrong magic, cut before or inside the IV, cut inside
\* the payload or with a byte too many, encrypted and plain
BadHeaders ==
  { <<85>> \o Drop(TESTHEADER, 1), <<85>> \o SubSeq(TESTHEADER, 2, 20),
    <<85>> \o SubSeq(TESTHEADER, 2, 10), Take(TESTHEADER, 5), Take(TESTHEADER, 10),
    Take(TESTHEADER, 13), Take(TESTHEADER, 24), Take(TESTHEADER, 25),
    Take(TESTHEADER, 30), TESTHEADER \o <<0>>,
    Protocol \o LeBytes(2, 4) \o <<1, 7>>, Protocol \o LeBytes(2, 4) \o <<1, 7, 7>>,
    Protocol \o LeBytes(2, 4) \o <<1, 7, 7, 7>>, Protocol \o LeBytes(0, 4) \o <<1>> }

\* data buffers cut inside the prefix or the payload, or with a byte too many
BadDatas ==
  { Take(TESTDATAPKT, 8), Take(TESTDATAPKT, 12), Take(TESTDATAPKT, 15),
    TESTDATAPKT \o <<9>> }

\* status bytes: enumerated ones, the sentinel, and some that are no status
StatusBytes == {0, 1, 8, 9, 10, 100, 254, 255}

CodecBuffers ==
  { <<"TeleportInit", TESTINIT>>, <<"TeleportInit", TESTINIT \o <<0, 0>>>>,
    <<"TeleportInit", Take(TESTINIT, 26)>>, <<"TeleportInit", Take(TESTINIT, 20)>>,
    <<"TeleportHeader", TESTHEADER>>, <<"TeleportHeader", Take(TESTHEADER, 20)>>,
    <<"TeleportDelta", TESTDELTA>>, <<"TeleportData", TESTDATAPKT>>,
    <<"TeleportInitAck", TESTINITACK>>, <<"TeleportVersion", Take(TESTINIT, 6)>> }
    \cup { <<"TeleportHeader", b>> : b \in BadHeaders }
    \cup { <<"TeleportData", b>> : b \in BadDatas }
    \cup { <<"TeleportInitAck", <<c>> \o Drop(TESTINITACK, 1)>> : c \in StatusBytes }

CodecInit ==
  /\ opt = [must_encrypt |-> FALSE, allow_dangerous_filepath |-> FALSE]
  /\ fs = <<>>
  /\ InitSessions
  /\ sanName = <<>> /\ sanAllow = FALSE /\ sanOut = <<>> /\ sanPc = "off"
  /\ ExchangeOff
  /\ Unlocked
  /\ ClientOff
  /\ cBack = <<>>
  /\ \/ /\ \E b \in CodecBuilt : cKind = b[1] /\ cMsg = <<b[2]>>
        /\ cWire = <<>>
        /\ cPc = "built"
     \/ /\ \E b \in CodecBuffers : cKind = b[1] /\ cWire = b[2]
        /\ cMsg = <<>>
        /\ cPc = "wired"

\* m.serialize()
CodecSerialize ==
  /\ cPc = "built"
  /\ cWire' = Serialize(cKind, cMsg[1])
  /\ cPc' = "wired"
  /\ UNCHANGED <<opt, recv_list, fs, pc, enc, header, filename, meta_len, received,
                 written, chunk, sent, outcome, first, raced, shared, io, cover,
                 svars, evars, lvars, kvars, cKind, cMsg, cBack>>

\* T::new(..).deserialize(&bytes)
CodecDeserialize ==
  /\ cPc = "wired"
  /\ cBack' = <<Deserialize(cKind, cWire)>>
  /\ cPc' = "read"
  /\ UNCHANGED <<opt, recv_list, fs, pc, enc, header, filename, meta_len, received,
                 written, chunk, sent, outcome, first, raced, shared, io, cover,
                 svars, evars, lvars, kvars, cKind, cMsg, cWire>>

CodecNext == CodecSerialize \/ CodecDeserialize

Codec == CodecInit /\ [][CodecNext]_vars

(* ----------------------------- key exchange ---------------------------- *)
\* The Ecdh / EcdhAck exchange of listen.rs 125-132 and of the unit tests: two
\* parties "a" and "b" generate a key pair each, install the other's public
\* key and derive; a third, "c", derives against a's public key without a
\* having installed c's.  X25519 and the AEAD are ideal: a private key is a
\* prime, the shared secret of two key pairs is the product of their primes,
\* and a cipher opens under the secret and nonce that sealed it and no other.
Parties == {"a", "b", "c"}
Peer == [a |-> "b", b |-> "a", c |-> "a"]
PrivateKeys == {2, 3, 5}
Nonces == {1, 2}
Plaintexts == {<<>>, <<7>>, TESTDATA}

\* a 32-byte array holding k
KeyBytes(k) == [i \in 1..32 |-> IF i = 1 THEN k ELSE 0]

\* TeleportEnc::new
TeleportEncNew == [secret |-> KeyBytes(0), remote |-> KeyBytes(0), public |-> KeyBytes(0)]

\* PublicKey::from(&EphemeralSecret), and the private key a public key is of
PublicOf(k) == KeyBytes(100 + k)
PrivateOf(pub) == pub[1] - 100

\* crypto::genkey(&mut ctx): a fresh private key, its public key stored in ctx
Genkey(ctx, k) == [ctx EXCEPT !.public = PublicOf(k)]

\* TeleportEnc::serialize
TeleportEncSerialize(ctx) == ctx.public

\* TeleportEnc::deserialize: the first 32 bytes become the remote key
TeleportEncDeserialize(ctx, input) ==
  IF Len(input) < 32 THEN Fail("InvalidPubKey")
  ELSE Ok([ctx EXCEPT !.remote = Take(input, 32)])

\* EphemeralSecret::diffie_hellman
DiffieHellman(k, pub) == KeyBytes(k * PrivateOf(pub))

\* a derivation against the party's own public key
TeleportEncCalcSecretOwn(ctx, k) == [ctx EXCEPT !.secret = DiffieHellman(k, ctx.public)]

\* TeleportEnc::calc_secret
TeleportEncCalcSecret(ctx, k) == [ctx EXCEPT !.secret = DiffieHellman(k, ctx.remote)]

\* crypto::encrypt and crypto::decrypt
CryptoEncrypt(secret, nonce, input) == [key |-> secret, nonce |-> nonce, text |-> input]
CryptoDecrypt(secret, nonce, input) ==
  IF input.key = secret /\ input.nonce = nonce
    THEN Ok(input.text) ELSE Fail("EncryptionFailure")

\* TeleportEnc::encrypt, TeleportEnc::decrypt
TeleportEncEncrypt(ctx, nonce, input) == CryptoEncrypt(ctx.secret, nonce, input)
TeleportEncDecrypt(ctx, nonce, input) == CryptoDecrypt(ctx.secret, nonce, input)

ExchangeInit ==
  /\ opt = [must_encrypt |-> FALSE, allow_dangerous_filepath |-> FALSE]
  /\ fs = <<>>
  /\ InitSessions
  /\ sanName = <<>> /\ sanAllow = FALSE /\ sanOut = <<>> /\ sanPc = "off"
  /\ CodecOff
  /\ ectx = [p \in Parties |-> TeleportEncNew]
  /\ epriv = [p \in Parties |-> 0]
  /\ emsg = <<>> /\ eback = <<>>
  /\ epc = "new"
  /\ Unlocked
  /\ ClientOff

\* let priv = crypto::genkey(&mut ctx), on every party
ExchangeGenkey ==
  /\ epc = "new"
  /\ \E ks \in [Parties -> PrivateKeys] :
       /\ epriv' = ks
       /\ ectx' = [p \in Parties |-> Genkey(ectx[p], ks[p])]
  /\ epc' = "keyed"
  /\ UNCHANGED <<sessvars, svars, cvars, lvars, kvars, emsg, eback>>

\* ctx.deserialize(&peer.serialize()), on every party
ExchangeInstall ==
  /\ epc = "keyed"
  /\ ectx' = [p \in Parties |->
                TeleportEncDeserialize(ectx[p], TeleportEncSerialize(ectx[Peer[p]])).value]
  /\ epc' = "swapped"
  /\ UNCHANGED <<sessvars, svars, cvars, lvars, kvars, epriv, emsg, eback>>

\* ctx.calc_secret(priv), on every party; the private key is consumed
ExchangeDerive ==
  /\ epc = "swapped"
  /\ ectx' = [p \in Parties |-> TeleportEncCalcSecret(ectx[p], epriv[p])]
  /\ epriv' = [p \in Parties |-> 0]
  /\ epc' = "derived"
  /\ UNCHANGED <<sessvars, svars, cvars, lvars, kvars, emsg, eback>>

\* a or b encrypts a payload under a nonce
ExchangeEncrypt ==
  /\ epc = "derived"
  /\ \E p \in {"a", "b"}, n \in Nonces, text \in Plaintexts :
       emsg' = <<[by |-> p, nonce |-> n, plain |-> text,
                  cipher |-> TeleportEncEncrypt(ectx[p], n, text)]>>
  /\ epc' = "sealed"
  /\ UNCHANGED <<sessvars, svars, cvars, lvars, kvars, ectx, epriv, eback>>

\* another party decrypts it under a nonce
ExchangeDecrypt ==
  /\ epc = "sealed"
  /\ \E p \in Parties \ {emsg[1].by}, n \in Nonces :
       eback' = <<[by |-> p, nonce |-> n,
                   result |-> TeleportEncDecrypt(ectx[p], n, emsg[1].cipher)]>>
  /\ epc' = "opened"
  /\ UNCHANGED <<sessvars, svars, cvars, lvars, kvars, ectx, epriv, emsg>>

ExchangeNext ==
  \/ ExchangeGenkey
  \/ ExchangeInstall
  \/ ExchangeDerive
  \/ ExchangeEncrypt
  \/ ExchangeDecrypt

Exchange == ExchangeInit /\ [][ExchangeNext]_vars

(* ------------------------- the in-progress mutex ----------------------- *)
\* The session threads seen from recv_list's Mutex: every lock(), every
\* statement under a guard and every drop of a guard is a step of its own, and
\* the socket and file I/O between them is one step per stretch of code.  The
\* standard output may fail under print_list, which panics with the guard held
\* and poisons the mutex; lock().expect(..) then panics in every later thread.
LockNames == { <<"f">>, <<"g">> }

\* the statements that call lock(); those that run under a guard; those that
\* read or write the socket or the destination file
LockPcs == {"lock241", "lock92", "lock63"}
GuardPcs == {"push242", "print243", "drop244", "retain93", "unlock94", "print66", "unlock67"}
IoPcs == {"handle", "transfer"}

restvars == <<opt, fs, enc, header, meta_len, received, written, chunk, sent, outcome,
              first, raced, shared, io, cover>>

LockingInit ==
  /\ opt = [must_encrypt |-> FALSE, allow_dangerous_filepath |-> FALSE]
  /\ fs = <<>>
  /\ InitSessions
  /\ sanName = <<>> /\ sanAllow = FALSE /\ sanOut = <<>> /\ sanPc = "off"
  /\ CodecOff
  /\ ExchangeOff
  /\ Unlocked
  /\ ClientOff

Goto(s, label) == pc' = [pc EXCEPT ![s] = label]

\* run, listen.rs 50-60: thread::spawn
LockSpawn(s) ==
  /\ pc[s] = "idle"
  /\ Goto(s, "handle")
  /\ UNCHANGED <<recv_list, filename, restvars, lvars, svars, cvars, evars, kvars>>

\* listen.rs 101-238: frames read and answered, the destination opened; the
\* function returns early, panics, or goes on with its filename
LockHandle(s) ==
  /\ pc[s] = "handle"
  /\ \/ Goto(s, "lock63") /\ UNCHANGED filename
     \/ Goto(s, "done") /\ UNCHANGED filename
     \/ \E name \in LockNames :
          /\ filename' = [filename EXCEPT ![s] = name]
          /\ Goto(s, "lock241")
  /\ UNCHANGED <<recv_list, restvars, lvars, svars, cvars, evars, kvars>>

\* Mutex::lock().expect(..): blocks while another guard lives; on a poisoned
\* mutex the Err is unwrapped and the thread panics, its guard dropped at once
Lock(s, at, next) ==
  /\ pc[s] = at
  /\ mutex = 0
  /\ IF poisoned
       THEN Goto(s, "done") /\ UNCHANGED mutex
       ELSE Goto(s, next) /\ mutex' = s
  /\ UNCHANGED <<recv_list, filename, restvars, poisoned, svars, cvars, evars, kvars>>

\* a guard that outlives its statement
KeepGuard(s, at, next) ==
  /\ pc[s] = at
  /\ Goto(s, next)
  /\ UNCHANGED <<mutex, recv_list, filename, restvars, poisoned, svars, cvars, evars, kvars>>

\* the guard goes out of scope or is dropped
DropGuard(s, at, next) ==
  /\ pc[s] = at
  /\ mutex' = 0
  /\ Goto(s, next)
  /\ UNCHANGED <<recv_list, filename, restvars, poisoned, svars, cvars, evars, kvars>>

\* listen.rs 242: recv_data.push(filename.clone())
LockPush(s) ==
  /\ pc[s] = "push242"
  /\ recv_list' = Append(recv_list, filename[s])
  /\ Goto(s, "print243")
  /\ UNCHANGED <<filename, restvars, lvars, svars, cvars, evars, kvars>>

\* print_list, listen.rs 82-89, called under the guard: it prints, or panics
\* on a failing standard output and the unwinding drops the guard
PrintList(s, at, next) ==
  /\ pc[s] = at
  /\ \/ Goto(s, next) /\ UNCHANGED lvars
     \/ Goto(s, "done") /\ mutex' = 0 /\ poisoned' = TRUE
  /\ UNCHANGED <<recv_list, filename, restvars, svars, cvars, evars, kvars>>

\* listen.rs 247-329: set_len, the ack and the receive loop; the loop breaks
\* (or the ack fails) towards rm_filename_from_list, or an error returns
LockTransfer(s) ==
  /\ pc[s] = "transfer"
  /\ \/ Goto(s, "lock92")
     \/ Goto(s, "lock63")
     \/ Goto(s, "done")
  /\ UNCHANGED <<recv_list, filename, restvars, lvars, svars, cvars, evars, kvars>>

\* rm_filename_from_list, listen.rs 93: retain
LockRetain(s) ==
  /\ pc[s] = "retain93"
  /\ recv_list' = Retain(recv_list, filename[s])
  /\ Goto(s, "unlock94")
  /\ UNCHANGED <<filename, restvars, lvars, svars, cvars, evars, kvars>>

\* the steps of one thread between its spawn and its end
LockThread(s) ==
  \/ LockHandle(s)
  \/ Lock(s, "lock241", "push242")
  \/ LockPush(s)
  \/ PrintList(s, "print243", "drop244")
  \/ DropGuard(s, "drop244", "transfer")
  \/ LockTransfer(s)
  \/ Lock(s, "lock92", "retain93")
  \/ LockRetain(s)
  \/ DropGuard(s, "unlock94", "lock63")
  \/ Lock(s, "lock63", "print66")
  \/ PrintList(s, "print66", "unlock67")
  \/ DropGuard(s, "unlock67", "done")

LockingNext == \E s \in Sessions : LockSpawn(s) \/ LockThread(s)

Locking == LockingInit /\ [][LockingNext]_vars

(* ------------------------------ the client ----------------------------- *)
\* client.rs: run sends its input files one connection each; the server's
\* answers are the environment's.  A call that the code unwraps or expects
\* may fail and panic, File::open and metadata may fail and end run with Err.
SrcFiles == { Source(n) : n \in 0..MaxSrcLen }
ClientInputs == UNION { [1..k -> SrcFiles] : k \in 1..MaxFiles }

\* the destination the server hashed for its answer: the source's bytes, or
\* the source with one byte changed (set_len has given it the source's length)
Dests(src) ==
  {src} \cup { [i \in 1..Len(src) |-> IF i = j THEN 3 ELSE src[i]] : j \in 1..Len(src) }

\* the statuses run answers with `continue` (client.rs 60-80)
ClientRefusals == {"NoOverwrite", "NoPermission", "NoSpace"}

ClientInit ==
  /\ opt = [must_encrypt |-> FALSE, allow_dangerous_filepath |-> FALSE]
  /\ fs = <<>>
  /\ InitSessions
  /\ sanName = <<>> /\ sanAllow = FALSE /\ sanOut = <<>> /\ sanPc = "off"
  /\ CodecOff
  /\ ExchangeOff
  /\ Unlocked
  /\ ksrc \in ClientInputs
  /\ knum = 0 /\ kpc = "open" /\ kack = <<>> /\ kout = NoOutput /\ kpos = 0
  /\ kresult = ""

\* run ends: return Err(s), or a panic of unwrap / expect
ClientEnds(how) ==
  /\ kresult' = how
  /\ kpc' = "exit"
  /\ UNCHANGED <<ksrc, knum, kack, kout, kpos>>

\* client.rs 9-49: open the file, read its metadata, connect, write the header
ClientOpen ==
  /\ kpc = "open"
  /\ \/ ClientEnds("err")
     \/ ClientEnds("panic")
     \/ /\ kout' = [header |-> <<[filenum |-> knum + 1, totalfiles |-> Len(ksrc),
                                  filesize |-> Len(ksrc[knum + 1])]>>,
                     data |-> <<>>]
        /\ kpc' = "await"
        /\ UNCHANGED <<ksrc, knum, kack, kpos, kresult>>
  /\ UNCHANGED <<sessvars, svars, cvars, evars, lvars>>

\* client.rs 51-82: recv_ack and the match on recv.ack
ClientRecvAck ==
  /\ kpc = "await"
  /\ \/ ClientEnds("panic")
     \/ \E status \in Statuses, dest \in Dests(ksrc[knum + 1]), hashed \in BOOLEAN :
          /\ kack' = <<[status |-> status, dest |-> dest,
                        delta |-> IF status = "Proceed" /\ hashed /\ dest # <<>>
                                  THEN <<DeltaHash(ChunkSize(ChunkBase, ChunkRatio,
                                                             Len(dest)), dest)>>
                                  ELSE <<>>]>>
          /\ kpc' = IF status \in ClientRefusals THEN "closed" ELSE "send"
          /\ UNCHANGED <<ksrc, knum, kout, kpos, kresult>>
  /\ UNCHANGED <<sessvars, svars, cvars, evars, lvars>>

\* send, client.rs 112-129: one iteration of the loop
ClientSend ==
  LET src == ksrc[knum + 1]
      len == Min(BufSize, Len(src) - kpos)
  IN
  /\ kpc = "send"
  /\ \/ ClientEnds("panic")
     \/ /\ IF len = 0
             THEN kpc' = "closed" /\ UNCHANGED <<kout, kpos>>
           ELSE /\ kout' = [kout EXCEPT !.data = Append(@, SubSeq(src, kpos + 1, kpos + len))]
                /\ kpos' = kpos + len
                /\ UNCHANGED kpc
        /\ UNCHANGED <<ksrc, knum, kack, kresult>>
  /\ UNCHANGED <<sessvars, svars, cvars, evars, lvars>>

\* client.rs 9, 65-89: the stream is dropped, the loop takes the next file or
\* run returns Ok(())
ClientContinue ==
  /\ kpc = "closed"
  /\ knum' = knum + 1
  /\ kack' = <<>> /\ kout' = NoOutput /\ kpos' = 0
  /\ IF knum + 1 = Len(ksrc)
       THEN kpc' = "exit" /\ kresult' = "ok"
       ELSE kpc' = "open" /\ UNCHANGED kresult
  /\ UNCHANGED ksrc
  /\ UNCHANGED <<sessvars, svars, cvars, evars, lvars>>

ClientNext ==
  \/ ClientOpen
  \/ ClientRecvAck
  \/ ClientSend
  \/ ClientContinue

Client == ClientInit /\ [][ClientNext]_vars

(* ------------------------------ properties ----------------------------- *)
InList(name) == \E i \in 1..Len(recv_list) : recv_list[i] = name
NoProceed(s) == \A i \in 1..Len(sent[s]) : sent[s][i].status # "Proceed"
InitAcks(s) == SelectSeq(sent[s], LAMBDA f : f.action = "InitAck")

\* C1: whenever a session that added its filename to the in-progress list has
\* returned, whichever way, the filename is no longer in the list; when no
\* session is active the list is empty.
C1_RemovedOnEveryExit ==
  /\ \A s \in Sessions : pc[s] = "returned" => ~InList(filename[s])
  /\ (\A s \in Sessions : pc[s] \in {"idle", "done"}) => recv_list = <<>>

\* C2: while a session is in its receive loop the in-progress list contains
\* its effective filename, in every interleaving, also when several sessions
\* receive to the same filename.
C2_ListedWhileReceiving ==
  \A s \in Sessions : pc[s] = "loop" => InList(filename[s])

FullCover(s) == cover[s] = 0..(header[s].filesize - 1)
DestIsSource(s) ==
  /\ filename[s] \in DOMAIN fs
  /\ fs[filename[s]] = [len |-> header[s].filesize, mode |-> header[s].chmod,
                        data |-> Source(header[s].filesize)]
ReportsSuccess(s) == outcome[s] = "" /\ outcome'[s] = "Received"

\* C3 as stated: when a session reports success after Data frames that cover
\* [0, filesize) with the source's bytes, the destination has length filesize,
\* mode Init.chmod and the source's content.
C3_Original ==
  [][\A s \in Sessions :
       (ReportsSuccess(s) /\ FullCover(s)) => DestIsSource(s)']_vars

\* C3 amended: the same, provided no other session changed the destination
\* file between this session's opening it and its report of success.
C3_UndisturbedTransfer ==
  [][\A s \in Sessions :
       (ReportsSuccess(s) /\ FullCover(s) /\ ~shared[s]) => DestIsSource(s)']_vars

C3_Witness ==
  \E s \in Sessions :
    /\ pc[s] = "cleanup" /\ outcome[s] = "Received"
    /\ header[s].filesize = MaxFileSize /\ FullCover(s) /\ ~shared[s]
    /\ DestIsSource(s)

RefusedPlain(s) ==
  /\ pc[s] = "returned"
  /\ sent[s] = <<SendAck(InitAckNew("RequiresEncryption"), FALSE)>>

\* C4 as stated: with must_encrypt, a first frame of any action other than
\* Ecdh is answered with InitAck(RequiresEncryption) and the session closes.
C4_Original ==
  \A s \in Sessions :
    (opt.must_encrypt /\ first[s].action \notin {"", "Ecdh"}) => RefusedPlain(s)

\* C4 amended: with must_encrypt, a first frame without the Encrypted bit
\* whose action is neither Ecdh nor Ping is answered with exactly one
\* InitAck(RequiresEncryption) and the session closes.
C4_RefusesPlaintext ==
  \A s \in Sessions :
    (opt.must_encrypt /\ ~first[s].encrypted
       /\ first[s].action \notin {"", "Ecdh", "Ping"})
      => (RefusedPlain(s) /\ outcome[s] = "RequiresEncryption" /\ io[s] = "none")

C4_Witness ==
  \E s \in Sessions :
    /\ opt.must_encrypt /\ first[s].action = "Init" /\ ~first[s].encrypted
    /\ first[s].kind = "init" /\ RefusedPlain(s)

\* C5 as stated: a session that received a frame with the Encrypted bit
\* without a completed handshake has sent no InitAck(Proceed), never entered
\* the receive loop and touched no file.
C5_Original ==
  \A s \in Sessions :
    outcome[s] = "DecryptFail" => (NoProceed(s) /\ io[s] = "none")

\* C5 amended: a first frame with the Encrypted bit ends the session with
\* nothing sent, no file touched and nothing listed; an Encrypted frame
\* without a handshake at any later point ends the session as well.
C5_EncryptedFirstFrame ==
  \A s \in Sessions :
    /\ first[s].encrypted =>
         /\ pc[s] = "returned" /\ outcome[s] = "DecryptFail"
         /\ sent[s] = <<>> /\ io[s] = "none" /\ recv_list = <<>>
    /\ outcome[s] = "DecryptFail" => (~enc[s] /\ pc[s] \in {"cleanup", "returned"})

C5_Witness ==
  \E s \in Sessions :
    /\ first[s].encrypted /\ first[s].action = "Init" /\ first[s].kind = "init"
    /\ pc[s] = "returned" /\ outcome[s] = "DecryptFail" /\ sent[s] = <<>>

PlainPing(s) == first[s].action = "Ping" /\ ~first[s].encrypted
PingAsked(s) == first[s].kind = "init" /\ first[s].ping

PreLoopFailures ==
  {"WrongVersion", "InitParse", "InitPanic", "BadUsername", "BadFileName",
   "NoOverwrite", "MkdirFail", "CreateFail", "BackupFail", "MetadataFail",
   "ChmodFail", "SetLenFail"}

\* C7: a session that failed before its receive loop started has sent exactly
\* one InitAck, and its status is not Proceed.
C7_OneAckPerFailure ==
  \A s \in Sessions :
    (pc[s] = "returned" /\ outcome[s] \in PreLoopFailures)
      => (Len(InitAcks(s)) = 1 /\ InitAcks(s)[1].status # "Proceed")

\* C8: with allow_dangerous_filepath false the sanitised filename contains no
\* "../" and does not begin with "/".
C8_NoTraversalLeft ==
  (sanPc = "out" /\ ~sanAllow)
    => (~HasDotDotSlash(sanOut) /\ ~StartsWithSlash(sanOut))

\* the characters of s outside every occurrence of "../", in order
MatchAt(s, i) ==
  i >= 1 /\ i + 2 <= Len(s) /\ s[i] = "." /\ s[i + 1] = "." /\ s[i + 2] = "/"
KeptIdx(s) == { i \in 1..Len(s) : \A j \in (i - 2)..i : ~MatchAt(s, j) }
NthOf(S, k) == CHOOSE i \in S : Cardinality({ j \in S : j <= i }) = k
DropMatches(s) == [k \in 1..Cardinality(KeptIdx(s)) |-> s[NthOf(KeptIdx(s), k)]]
DropLeadingSlash(s) ==
  IF Len(s) > 0 /\ s[1] = "/" THEN [i \in 1..(Len(s) - 1) |-> s[i + 1]] ELSE s
EtcPasswd == <<"e", "t", "c", "/", "p", "a", "s", "s", "w", "d">>

\* C9: with allow_dangerous_filepath false the effective filename is the
\* received one without a single leading "/" and then without the characters
\* of any "../" occurrence ("/../../etc/passwd" gives "etc/passwd"); with
\* allow_dangerous_filepath true it is the received filename unchanged.
C9_SanitisedName ==
  sanPc = "out" =>
    /\ sanOut = IF sanAllow THEN sanName
                ELSE DropMatches(DropLeadingSlash(sanName))
    /\ (sanName = TraversalExample /\ ~sanAllow) => sanOut = EtcPasswd

C9_Witness ==
  /\ sanPc = "out" /\ ~sanAllow
  /\ sanName = TraversalExample /\ sanOut = EtcPasswd

\* the first path that does not exist among name, name.1, name.2, ...
FirstFree(files, name) ==
  LET Cand(k) == IF k = 0 THEN name ELSE Renamed(name, k)
      first_k == CHOOSE k \in 0..(Cardinality(DOMAIN files) + 1) :
                   /\ ~Exists(files, Cand(k))
                   /\ \A j \in 0..(k - 1) : Exists(files, Cand(j))
  IN Cand(first_k)

C11_NoOverwriteRefusal ==
  [][\A s \in Sessions :
       /\ (/\ pc[s] = "overwrite"
           /\ header[s].features \cap {"Overwrite", "Rename"} = {}
           /\ Exists(fs, filename[s]))
            => /\ pc'[s] = "returned" /\ outcome'[s] = "NoOverwrite"
               /\ sent'[s] = Append(sent[s], SendAck(InitAckNew("NoOverwrite"), enc[s]))
       /\ (pc[s] \in {"first", "s1", "rename", "overwrite"} \/ outcome[s] = "NoOverwrite")
            => (fs' = fs /\ recv_list' = recv_list)]_vars

C11_Witness ==
  \E s \in Sessions :
    /\ outcome[s] = "NoOverwrite" /\ pc[s] = "returned"
    /\ header[s].features = {"NewFile", "Backup"}
    /\ fs = (<<"f">> :> ExistingFile) /\ recv_list = <<>>

VersionDiffers(s) ==
  \/ header[s].version.major # ServerVersion.major
  \/ header[s].version.minor # ServerVersion.minor

WrongVersionAck(s) == SendAck(InitAckNew("WrongVersion"), enc[s])

C13_WrittenEqualsFilesize ==
  \A s \in Sessions :
    (pc[s] = "cleanup" /\ outcome[s] = "Received") => written[s] = header[s].filesize

\* C14: after set_len(filesize) every non-terminal Data frame the session wrote
\* in full lies within the file (offset + data_len <= filesize) and the
\* destination file is never longer than filesize.
C14_WritesWithinFilesize ==
  \A s \in Sessions :
    pc[s] \in {"loop", "cleanup"}
      => /\ fs[filename[s]].len <= header[s].filesize
         /\ (chunk[s] # <<>> /\ chunk[s][1].data_len > 0 /\ outcome[s] # "PartialWrite")
              => chunk[s][1].offset + chunk[s][1].data_len <= header[s].filesize

\* C15: in the receive loop a Data frame with data_len = 0 always takes the
\* session out of the loop to its cleanup, reporting success exactly when
\* received = filesize or the frame's offset = filesize, and failure otherwise;
\* no other step reports success.
C15_TerminalFrame ==
  [][\A s \in Sessions :
       LET ends == chunk'[s] # <<>> /\ chunk'[s][1].data_len = 0 IN
       /\ (pc[s] = "loop" /\ ends)
            => /\ pc'[s] = "cleanup"
               /\ outcome'[s] = IF \/ received[s] = header[s].filesize
                                   \/ chunk'[s][1].offset = header[s].filesize
                                THEN "Received" ELSE "ErrorReceiving"
               /\ fs' = fs
       /\ (outcome[s] # "Received" /\ outcome'[s] = "Received")
            => (pc[s] = "loop" /\ ends)]_vars

C15_Witness ==
  \E s \in Sessions :
    /\ outcome[s] = "Received" /\ pc[s] = "cleanup"
    /\ chunk[s] = <<[offset |-> header[s].filesize, data_len |-> 0]>>
    /\ received[s] # header[s].filesize

\* C16: the features of an InitAck(Proceed) echo the request: every feature
\* in the ack was in Init.features, and for a destination that was not there
\* and was asked for with NewFile|Overwrite the ack's features are
\* NewFile|Overwrite.
C16_FeaturesEchoed ==
  [][\A s \in Sessions :
       (pc[s] = "setlen" /\ pc'[s] = "loop")
         => LET ack == sent'[s][Len(sent'[s])] IN
            /\ ack.status = "Proceed" /\ ack.features # <<>>
            /\ ack.features[1] \subseteq header[s].features
            /\ (io[s] = "create" /\ header[s].features = {"NewFile", "Overwrite"})
                 => ack.features[1] = {"NewFile", "Overwrite"}]_vars

\* C17: every InitAck the server sends carries features iff its status is
\* Proceed and a TeleportDelta iff its features include Delta, also when the
\* delta hash could not be computed, and TeleportInitAck::deserialize accepts
\* it.
C17_AckWellFormed ==
  \A s \in Sessions : \A i \in 1..Len(sent[s]) :
    LET ack == sent[s][i] IN
    ack.action \in {"InitAck", "PingAck"}
      => /\ ack.features # <<>> <=> ack.status = "Proceed"
         /\ ack.delta # <<>> <=> (ack.features # <<>> /\ "Delta" \in ack.features[1])
         /\ InitAckDeserializeOk(ack)

ReadBack == cBack[1]

\* C18: for TeleportInit, TeleportInitAck, TeleportDelta, TeleportData and
\* TeleportVersion, every instance built as the program builds it is read
\* back by deserialize(serialize(m)) successfully and equal to m.
C18_RoundTrip ==
  (cPc = "read" /\ cMsg # <<>> /\ cKind # "TeleportHeader")
    => (ReadBack.status = "ok" /\ ReadBack.value = cMsg[1])

\* C19: every TeleportHeader, with or without iv and with any action byte, is
\* read back by deserialize(serialize(H)) successfully and equal to H; in the
\* serialized bytes the Encrypted bit of the action byte is set iff the iv
\* follows, and the data_len written is the number of payload bytes.
C19_HeaderRoundTrip ==
  (cKind = "TeleportHeader" /\ cMsg # <<>>)
    => /\ cPc \in {"wired", "read"}
            => /\ HasBit(cWire[13], EncryptedBit) <=> cMsg[1].iv # <<>>
               /\ LeValue(SubSeq(cWire, 9, 12)) = Len(cMsg[1].data)
       /\ cPc = "read"
            => /\ ReadBack.status = "ok"
               /\ ReadBack.value = HeaderAfterSerialize(cMsg[1])

\* C20: a TeleportInit serializes to version(6), features(4), chmod(4),
\* filesize(8), filename_len(2) and the filename, 24 + filename_len bytes with
\* nothing after the filename (the unit test's 28 bytes for "file"), and
\* deserialize accepts that buffer.
C20_InitLayout ==
  /\ (cKind = "TeleportInit" /\ cMsg # <<>> /\ cPc \in {"wired", "read"})
       => /\ Len(cWire) = 24 + Len(cMsg[1].filename)
          /\ cWire = TeleportVersionSerialize(cMsg[1].version)
                       \o LeBytes(cMsg[1].features, 4) \o LeBytes(cMsg[1].chmod, 4)
                       \o LeBytes(cMsg[1].filesize, 8)
                       \o LeBytes(Len(cMsg[1].filename), 2) \o cMsg[1].filename
  /\ (cKind = "TeleportInit" /\ cPc = "read" /\ cWire = TESTINIT)
       => (ReadBack.status = "ok" /\ ReadBack.value.filename = FileName)

\* a TeleportInit buffer whose fixed part is whole and in which fewer bytes
\* follow filename_len than it declares
ShortFilename(b) == Len(b) >= 24 /\ LeValue(SubSeq(b, 23, 24)) > Len(b) - 24

\* C21: TeleportInit::deserialize of a buffer in which fewer filename bytes
\* remain than filename_len declares returns an error value (InvalidFileName),
\* not a panic of the session thread.
C21_ShortFilenameIsError ==
  (cKind = "TeleportInit" /\ cPc = "read" /\ ShortFilename(cWire))
    => ReadBack.status = "err"

PayloadStart(b) == IF HasBit(b[13], EncryptedBit) THEN 25 ELSE 13

\* C22: TeleportHeader::deserialize fails with InvalidHeaderRead when the first
\* 8 bytes are not the magic; past that, with InvalidIV when the Encrypted bit
\* is set and fewer than 25 bytes were given; past that, with InvalidLength
\* when the bytes after the header (and IV) do not number data_len.
\* TeleportData::deserialize fails with InvalidLength when the bytes after its
\* 12-byte prefix do not number data_len.
C22_DeserializeErrors ==
  LET b == cWire
      magic == Len(b) >= 8 /\ Take(b, 8) = Protocol
      whole == magic /\ Len(b) >= 13 /\ Len(b) >= PayloadStart(b)
  IN
  /\ (cKind = "TeleportHeader" /\ cPc = "read")
       => /\ (Len(b) >= 8 /\ Take(b, 8) # Protocol)
               => ReadBack.error = "InvalidHeaderRead"
          /\ (magic /\ Len(b) >= 13 /\ HasBit(b[13], EncryptedBit) /\ Len(b) < 25)
               => ReadBack.error = "InvalidIV"
          /\ (whole /\ Len(b) - PayloadStart(b) # LeValue(SubSeq(b, 9, 12)))
               => ReadBack.error = "InvalidLength"
          /\ (whole /\ Len(b) - PayloadStart(b) = LeValue(SubSeq(b, 9, 12)))
               => ReadBack.status = "ok"
  /\ (cKind = "TeleportData" /\ cPc = "read" /\ Len(b) >= 12)
       => IF Len(b) - 12 # LeValue(SubSeq(b, 9, 12))
            THEN ReadBack.error = "InvalidLength"
            ELSE ReadBack.status = "ok"

C22_Witness ==
  /\ cKind = "TeleportHeader" /\ cPc = "read"
  /\ cWire = Take(TESTHEADER, 30)
  /\ ReadBack.error = "InvalidLength"

\* C23: deserializing a TeleportInitAck whose status byte is not an enumerated
\* TeleportStatus returns InvalidStatusCode; such a byte is never accepted.
C23_UnknownStatusRejected ==
  (cKind = "TeleportInitAck" /\ cPc = "read" /\ Len(cWire) >= 7
     /\ cWire[1] \notin TeleportStatusCodes)
    => ReadBack.error = "InvalidStatusCode"

\* C24: after the exchange (key pair each, the other's public key installed,
\* derivation with the own private key) a and b hold the same shared secret;
\* a payload encrypted by one side under a nonce decrypts on the other side
\* under the same nonce to the original plaintext, while decryption under a
\* different secret or a different nonce fails.
C24_SharedSecretAndAead ==
  /\ epc \in {"derived", "sealed", "opened"} => ectx["a"].secret = ectx["b"].secret
  /\ epc = "opened" =>
       LET m == emsg[1]
           r == eback[1]
       IN  /\ (r.by = Peer[m.by] /\ r.nonce = m.nonce) => r.result = Ok(m.plain)
           /\ (ectx[r.by].secret # ectx[m.by].secret \/ r.nonce # m.nonce)
                 => r.result.status = "err"

C24_Witness ==
  /\ epc = "opened"
  /\ emsg[1].by = "a" /\ emsg[1].plain = TESTDATA
  /\ eback[1].by = "b" /\ eback[1].nonce = emsg[1].nonce
  /\ eback[1].result = Ok(TESTDATA)
  /\ ectx["c"].secret # ectx["a"].secret

\* C25: no thread reads or writes the socket or the destination file while it
\* holds the guard of the in-progress list: the holder is at a push, a retain
\* or a print of the list; a thread that calls lock() holds no guard already;
\* so whenever a thread waits for the mutex its holder can take its next step,
\* and as long as a thread is running some thread can step (no deadlock).
C25_LockDiscipline ==
  /\ mutex # 0 => pc[mutex] \in GuardPcs
  /\ \A s \in Sessions : pc[s] \in IoPcs \cup LockPcs => mutex # s
  /\ \A s \in Sessions : (pc[s] \in LockPcs /\ mutex # 0) => ENABLED LockThread(mutex)
  /\ (\E s \in Sessions : pc[s] \notin {"idle", "done"})
       => \E s \in Sessions : ENABLED LockThread(s)

C25_Witness ==
  /\ pc[1] = "lock92" /\ filename[1] = <<"f">>
  /\ mutex = 2 /\ pc[2] = "print243"
  /\ recv_list = << <<"f">>, <<"f">> >>

\* C26: once a session has sent InitAck(Proceed) it writes nothing more to its
\* socket, whatever ends the receive loop; a failing iteration changes the
\* destination at most by the write it made, and the steps after the loop leave
\* the file, partial or not, on disk as it is.
C26_SilentAfterProceed ==
  [][\A s \in Sessions :
       ~NoProceed(s) =>
         /\ pc'[s] # "done" => sent'[s] = sent[s]
         /\ filename[s] \in DOMAIN fs'
         /\ fs'[filename[s]].len >= fs[filename[s]].len
         /\ pc[s] # "loop" => fs' = fs
         /\ (pc[s] = "loop" /\ outcome'[s] \notin {"", "Received", "PartialWrite", "Oversize"})
              => fs' = fs]_vars

C26_Witness ==
  /\ pc[1] = "returned" /\ outcome[1] = "DecryptFail"
  /\ Len(sent[1]) = 1 /\ sent[1][1].status = "Proceed"
  /\ header[1].filesize = MaxFileSize
  /\ cover[1] = {0}
  /\ filename[1] \in DOMAIN fs /\ fs[filename[1]].len = MaxFileSize

\* C27: when the session opens its destination, an existing target of an Init
\* with Backup has its previous content copied to target.bak and is itself
\* still as it was (the copy precedes every change of length, mode or
\* content); for a target that did not exist, or without Backup, the open
\* creates no .bak.  A session changes no file before its open and never
\* touches the .bak afterwards.
C27_BackupBeforeChange ==
  [][\A s \in Sessions :
       LET name == filename[s] IN
       /\ (pc[s] = "open" /\ pc'[s] = "chmod") =>
            IF "Backup" \in header[s].features /\ name \in DOMAIN fs
              THEN /\ Bak(name) \in DOMAIN fs'
                   /\ fs'[Bak(name)] = fs[name]
                   /\ fs'[name] = fs[name]
              ELSE DOMAIN fs' \subseteq DOMAIN fs \cup {name}
       /\ pc[s] \in {"first", "s1", "rename", "overwrite"} => fs' = fs
       /\ (pc[s] \in OpenPcs /\ Bak(name) \in DOMAIN fs)
            => fs'[Bak(name)] = fs[Bak(name)]]_vars

\* the statuses the claim takes for refusals
ClaimedRefusals ==
  {"NoOverwrite", "NoPermission", "NoSpace", "WrongVersion", "BadFileName",
   "EncryptionError", "RequiresEncryption"}

\* C28: after an InitAck whose status is NoOverwrite, NoPermission, NoSpace,
\* WrongVersion, BadFileName, EncryptionError or RequiresEncryption the client
\* writes no file data on that connection and goes on to close it; whenever
\* file data has been written on a connection, its InitAck said Proceed.
C28_NoDataAfterRefusal ==
  kack # <<>> =>
    /\ kack[1].status \in ClaimedRefusals => (kout.data = <<>> /\ kpc = "closed")
    /\ kout.data # <<>> => kack[1].status = "Proceed"

\* what a write on the socket holds when read as a frame: the TeleportData of a
\* plaintext frame with action Data
FrameOf(w) ==
  LET h == TeleportHeaderDeserialize(w) IN
  IF h.status = "ok" /\ h.value.action = DataAction
    THEN TeleportDataDeserialize(h.value.data)
    ELSE Fail("NotData")

\* w is the frame of the source's bytes [off, off + k)
IsChunkFrame(w, src, off, k) ==
  /\ FrameOf(w).status = "ok"
  /\ FrameOf(w).value.offset = off
  /\ FrameOf(w).value.data = SubSeq(src, off + 1, off + k)

\* C29: when the client closes a connection on which the server said Proceed,
\* what it wrote after the header is a sequence of TeleportData frames of at
\* most BufSize (4096) payload bytes, each holding the source's bytes at its
\* offset, which cover [0, n) exactly once, followed by exactly one terminal
\* frame with offset n and no data.
C29_FramedStream ==
  (kpc = "closed" /\ kack[1].status = "Proceed") =>
    LET src == ksrc[knum + 1]
        n == Len(src)
        w == kout.data
        F(i) == FrameOf(w[i]).value
    IN
    /\ Len(w) >= 1
    /\ \A i \in 1..Len(w) : FrameOf(w[i]).status = "ok"
    /\ \A i \in 1..(Len(w) - 1) :
         /\ F(i).data_len \in 1..BufSize
         /\ IsChunkFrame(w[i], src, F(i).offset, F(i).data_len)
    /\ IsChunkFrame(w[Len(w)], src, n, 0)
    /\ \A p \in 0..(n - 1) :
         Cardinality({ i \in 1..(Len(w) - 1) :
                        F(i).offset <= p /\ p < F(i).offset + F(i).data_len }) = 1

\* the kth chunk (from 1) of a file under chunk size c
ChunkOf(file, c, k) == SubSeq(file, (k - 1) * c + 1, Min(k * c, Len(file)))
NumChunks(file, c) == (Len(file) + c - 1) \div c

\* the chunks whose hash in the server's delta d is not the hash the client
\* computes, with the same delta_hash, over that chunk of its source
DeltaMarks(src, d) ==
  { k \in 1..Len(d.chunk_hash) :
      d.chunk_hash[k] # DeltaHash(d.chunk_size, src).chunk_hash[k] }

\* C30: when the server's answer carries the TeleportDelta of a destination
\* identical to the source, every chunk hash of the delta is the hash of the
\* corresponding chunk of the source and the client sends the terminal frame
\* only; when exactly the kth chunk differs the client sends that chunk and
\* the terminal frame.
C30_DeltaSkip ==
  (kpc = "closed" /\ kack[1].status = "Proceed" /\ kack[1].delta # <<>>) =>
    LET src == ksrc[knum + 1]
        n == Len(src)
        dest == kack[1].dest
        d == kack[1].delta[1]
        c == d.chunk_size
        w == kout.data
        differ == { k \in 1..NumChunks(src, c) : ChunkOf(src, c, k) # ChunkOf(dest, c, k) }
    IN
    /\ Len(d.chunk_hash) = NumChunks(src, c)
    /\ dest = src =>
         /\ DeltaMarks(src, d) = {}
         /\ Len(w) = 1 /\ IsChunkFrame(w[1], src, n, 0)
    /\ \A k \in differ :
         differ = {k} =>
           /\ DeltaMarks(src, d) = {k}
           /\ Len(w) = 2
           /\ IsChunkFrame(w[1], src, (k - 1) * c, Len(ChunkOf(src, c, k)))
           /\ IsChunkFrame(w[2], src, n, 0)

\* C31: when the frame after a completed Ecdh handshake has an action other
\* than Init, whatever its payload, the session ends having sent, after the
\* EcdhAck, one InitAck with status EncryptionError, and no file was created or
\* modified.  (Checked where every frame after a handshake is such a frame; a
\* connection that breaks before the frame arrives is left aside.)
C31_EncryptionErrorReply ==
  \A s \in Sessions :
    (enc[s] /\ pc[s] = "returned" /\ outcome[s] # "RecvError") =>
      /\ outcome[s] = "EncryptionError"
      /\ sent[s] = <<EcdhAckFrame, SendAck(InitAckNew("EncryptionError"), TRUE)>>
      /\ io[s] = "none"
      /\ fs \in InitFiles

\* C32: the TeleportDelta that delta_hash returns for a file of n bytes under
\* chunk size c has ceil(n / c) chunk hashes, the kth being the hash of exactly
\* the file's bytes of chunk k (of the remaining bytes only, for a final
\* partial chunk), and its whole-file hash is the hash of exactly the n bytes.
C32_ChunkHashes ==
  (kack # <<>> /\ kack[1].delta # <<>>) =>
    LET file == kack[1].dest
        d == kack[1].delta[1]
        c == d.chunk_size
    IN
    /\ d.filesize = Len(file)
    /\ Len(d.chunk_hash) = NumChunks(file, c)
    /\ \A k \in 1..Len(d.chunk_hash) : d.chunk_hash[k] = Xxh3(ChunkOf(file, c, k))
    /\ d.hash = Xxh3(file)

\* C33: a frame the server sent carries the Encrypted modifier exactly when it
\* was sent after the session's EcdhAck: PingAck, InitAck(RequiresEncryption)
\* and the EcdhAck itself are plaintext, a session without a completed
\* handshake has sent no Encrypted frame, and every InitAck after the EcdhAck
\* is encrypted.
C33_EncryptedIffHandshake ==
  \A s \in Sessions :
    /\ \A i \in 1..Len(sent[s]) :
         /\ sent[s][i].encrypted <=> \E j \in 1..(i - 1) : sent[s][j].action = "EcdhAck"
         /\ (sent[s][i].action \in {"PingAck", "EcdhAck"}
               \/ sent[s][i].status = "RequiresEncryption") => ~sent[s][i].encrypted
    /\ (pc[s] # "done" /\ ~enc[s]) => \A i \in 1..Len(sent[s]) : ~sent[s][i].encrypted
    /\ (pc[s] # "done" /\ enc[s]) => sent[s][1].action = "EcdhAck"

C33_Witness ==
  /\ enc[1] /\ pc[1] = "loop"
  /\ Len(sent[1]) = 2
  /\ sent[1][1].action = "EcdhAck" /\ ~sent[1][1].encrypted
  /\ sent[1][2].action = "InitAck" /\ sent[1][2].status = "Proceed" /\ sent[1][2].encrypted

\* C34: with must_encrypt set, no step of a session changes the filesystem or
\* the in-progress list unless the session's first frame was an Ecdh and its
\* handshake completed; a session opened by any other frame ends with both as
\* they were.
C34_MustEncryptGuardsFiles ==
  [][\A s \in Sessions :
       (opt.must_encrypt /\ pc[s] \notin {"idle", "done"}
          /\ ~(first[s].action = "Ecdh" /\ enc[s]))
         => (fs' = fs /\ recv_list' = recv_list /\ io'[s] = "none")]_vars

C34_Witness ==
  /\ opt.must_encrypt
  /\ first[1].action = "Init" /\ first[1].kind = "init"
  /\ pc[1] = "returned" /\ outcome[1] = "RequiresEncryption"
  /\ fs \in InitFiles /\ recv_list = <<>> /\ io[1] = "none"

\* C35: a frame that arrives in the receive loop with an action other than
\* Data causes no write to the destination file and does not end the transfer
\* as received.  (Checked where every frame of the loop is such a frame.)
C35_OnlyDataIsWritten ==
  [][\A s \in Sessions :
       pc[s] = "loop" => (fs' = fs /\ outcome'[s] # "Received")]_vars

====
